---- MODULE Spec2Model ----
(***************************************************************************)
(* Decision-cycle orchestrator of the agentic-trading repository:          *)
(* run_strategies (src/src/strategies/runner.py), orchestrate              *)
(* (src/src/orchestrator/orchestrate.py) and deconflict_signals            *)
(* (src/src/orchestrator/deconflict.py).                                   *)
(*                                                                         *)
(* Numbers: strength and confidence are tenths (strength 5 is 0.5), so an  *)
(* effective weight |strength| * confidence * weight is in hundredths, as  *)
(* is alpha_net.  Time is a discrete clock; only decision functions take   *)
(* time, every other step of the runner is instantaneous.                  *)
(***************************************************************************)
EXTENDS Integers, Sequences, FiniteSets, TLC

VARIABLES
    entry,        \* which public function this run calls
    pc,           \* position of the calling thread
    k,            \* loop index over the prepared strategies
    now,          \* time since the run of the strategies began
    strategies,   \* the strategies argument: a sequence of strategy ids
    max_workers,  \* argument of run_strategies
    timeout_secs, \* strategy_timeout_secs, NoLimit for None
    persist,      \* argument persist
    task,         \* per strategy: the work item of its _run_one call
    waitStart,    \* when the current future.result(timeout) call began
    timedOut,     \* strategies whose future.result raised TimeoutError
    returned,     \* per strategy: what the runner took out of its future
    prefetched,   \* strategies whose DataAccess has been prefetched
    ctxUniverse,  \* per strategy: the universe of its StrategyContext
    signals,      \* the runner's signals list
    errors,       \* the runner's errors list
    result,       \* the RunResult, <<>> before Phase 3
    run_universe, \* the universe argument of run_strategies
    db,           \* the store: the strategy_runs record, signals, intents
    raised,       \* the exception that left the called function, or None
    universe,     \* orchestrate's universe argument
    bars,         \* the bars table: per symbol its bars, ascending by ts
    now_ts,       \* orchestrate's now_ts argument, <<>> for None
    constraints,  \* the Constraints: <<>> until filter_universe reads them
    eval_ts,      \* the evaluation timestamp, <<>> until resolved
    stale_exclusions, \* the SymbolExclusions of Step 0
    universe_result,  \* the UniverseResult: included and excluded
    strategy_weights, \* the strategy_weights argument of deconflict_signals
    merged,       \* merged_signals
    dropped,      \* dropped_signals
    sizing,       \* what compute_targets was called with, <<>> before
    targets,      \* the TargetPositions
    intent,       \* the PortfolioIntent, <<>> until assembled
    cache,        \* DataAccess._cache: per symbol <<>> or <<its bars>>
    read,         \* the bars the last DataAccess read returned
    call          \* the last DataAccess call: method, symbol, lookback_bars

\* What the cycle around run_strategies holds.
orchVars == <<universe, bars, now_ts, constraints, eval_ts, stale_exclusions,
              universe_result, strategy_weights, merged, dropped, sizing,
              targets, intent>>

\* What a DataAccess holds and hands out.
dataVars == <<cache, read, call>>

None == "None"

\* An optional value is a sequence: <<>> for None, <<v>> for v.
Some(v) == <<v>>

\* ------------------------------------------------------------------ bounds

\* Run time of a decision function that answers within the budget.
FastSecs == 1
\* The per-strategy budget when one is set.
TimeoutSecs == 2
\* Run time of a decision function that overruns the budget but returns.
SlowSecs == 3
\* A decision function that never returns has no run time.
Hang == 0 - 1
\* strategy_timeout_secs = None.
NoLimit == 0 - 1
\* Longest list a decision function returns in the runner's own runs.
MaxReturned == 1

\* ----------------------------------------------------------------- helpers

Abs(x) == IF x < 0 THEN -x ELSE x

Range(s) == {s[i] : i \in DOMAIN s}

RECURSIVE SeqSum(_)
SeqSum(s) == IF s = <<>> THEN 0 ELSE Head(s) + SeqSum(Tail(s))

RECURSIVE Flatten(_)
Flatten(ss) == IF ss = <<>> THEN <<>> ELSE Head(ss) \o Flatten(Tail(ss))

SeqsUpTo(S, n) == UNION {[1..m -> S] : m \in 0..n}

\* Symbols in ascending string order; a symbol's rank is its place here.
SymbolOrder == <<"AAA", "BBB", "CCC", "ZZZ">>

SymRank(sym) == CHOOSE i \in DOMAIN SymbolOrder : SymbolOrder[i] = sym

\* ------------------------------------------------------------------ Signal

\* A Signal with the fields the cycle reads.  veto stands for "one of the
\* signal's tags is a veto tag"; horizon_bars is 1 and the price hints are
\* None unless WithHints sets them.
Signal(sid, sym, side, strength, confidence, veto, alpha) ==
    [strategy_id |-> sid, symbol |-> sym, side |-> side, strength |-> strength,
     confidence |-> confidence, veto |-> veto, alpha_net |-> alpha,
     horizon_bars |-> 1, stop_price |-> <<>>, take_profit_price |-> <<>>]

WithHints(sig, horizon, stop, tp) ==
    [sig EXCEPT !.horizon_bars = horizon, !.stop_price = stop,
                !.take_profit_price = tp]

\* Signal ordering on the signed strength instead of its magnitude.
SignalLtSigned(a, b) ==
    \/ a.strength > b.strength
    \/ /\ a.strength = b.strength
       /\ \/ a.confidence > b.confidence
          \/ /\ a.confidence = b.confidence
             /\ SymRank(a.symbol) < SymRank(b.symbol)

\* Signal.__lt__ on _sort_key: (-|strength|, -confidence, symbol).
SignalLt(a, b) ==
    \/ Abs(a.strength) > Abs(b.strength)
    \/ /\ Abs(a.strength) = Abs(b.strength)
       /\ \/ a.confidence > b.confidence
          \/ /\ a.confidence = b.confidence
             /\ SymRank(a.symbol) < SymRank(b.symbol)

RECURSIVE InsertSorted(_, _)
\* x goes before the first element it is less than: equal elements keep
\* their order of arrival (list.sort is stable).
InsertSorted(x, s) ==
    IF s = <<>> THEN <<x>>
    ELSE IF SignalLt(x, Head(s)) THEN <<x>> \o s
    ELSE <<Head(s)>> \o InsertSorted(x, Tail(s))

RECURSIVE SortSignals(_)
SortSignals(s) ==
    IF s = <<>> THEN <<>>
    ELSE InsertSorted(s[Len(s)], SortSignals(SubSeq(s, 1, Len(s) - 1)))

\* --------------------------------------------------- strategies as inputs

StrategyIds == <<"s1", "s2", "s3">>

\* Strategy.version of a strategy.
Version(sid) == "1.0.0"

\* What a decision function hands back: a list or something else, and for a
\* list its elements, each a Signal or something else.
ReturnValue(isList, items) == [isList |-> isList, items |-> items]

Elem(sig) == [isSignal |-> TRUE, val |-> sig]

NotASignal == [isSignal |-> FALSE,
               val |-> Signal("", "AAA", "flat", 0, 0, FALSE, <<>>)]

\* The signals a strategy of the runner's own runs chooses from.  Between
\* them every key of the sort order decides: |strength|, then confidence,
\* then symbol; the same signal from two strategies ties on all three.
RunPool(sid) ==
    {Signal(sid, "AAA", "long", 5, 8, FALSE, <<>>),
     Signal(sid, "BBB", "short", -5, 8, FALSE, <<>>),
     Signal(sid, "BBB", "long", 5, 9, FALSE, <<>>),
     Signal(sid, "AAA", "short", -9, 5, FALSE, <<>>)}

\* A signal stamped with another strategy's id.
Foreign(sid) == Signal("other", "AAA", "long", 5, 8, FALSE, <<>>)

ValidLists(pool, n) == {[i \in DOMAIN s |-> Elem(s[i])] : s \in SeqsUpTo(pool, n)}

\* What the decision function of strategy sid may do when it returns:
\* raise, or return one of these values.
Behaviours(sid, pool, n) ==
    {[raises |-> TRUE, ret |-> ReturnValue(FALSE, <<>>)]}
    \cup {[raises |-> FALSE, ret |-> r] :
            r \in {ReturnValue(FALSE, <<>>),
                   ReturnValue(TRUE, <<NotASignal>>),
                   ReturnValue(TRUE, <<Elem(Foreign(sid))>>),
                   ReturnValue(TRUE, <<Elem(CHOOSE s \in pool : TRUE),
                                       Elem(Foreign(sid))>>)}
                 \cup {ReturnValue(TRUE, l) : l \in ValidLists(pool, n)}}

\* The outcome of a call: a value (a list of signals) or an exception.
Value(items) == [kind |-> "value", items |-> items, etype |-> "", msg |-> ""]

Exc(etype, msg) == [kind |-> "exc", items |-> <<>>, etype |-> etype, msg |-> msg]

RECURSIVE FirstBad(_, _, _)
\* The first element, from index i on, that _validate_signals rejects: 0 when
\* there is none.
FirstBad(items, sid, i) ==
    IF i > Len(items) THEN 0
    ELSE IF ~items[i].isSignal \/ items[i].val.strategy_id /= sid THEN i
    ELSE FirstBad(items, sid, i + 1)

_validate_signals(ret, sid) ==
    IF ~ret.isList THEN Exc("StrategyError", "expected list")
    ELSE LET bad == FirstBad(ret.items, sid, 1) IN
         IF bad = 0 THEN Value([i \in DOMAIN ret.items |-> ret.items[i].val])
         ELSE IF ~ret.items[bad].isSignal
              THEN Exc("StrategyError", "expected Signal")
              ELSE Exc("StrategyError", "strategy_id does not match")

_run_one(sid, b) ==
    IF b.raises THEN Exc("ValueError", "boom")
    ELSE _validate_signals(b.ret, sid)

StrategyRunError(sid, etype, msg) ==
    [strategy_id |-> sid, version |-> Version(sid), error_type |-> etype,
     error_message |-> msg]

TimeoutRecord(sid) == StrategyRunError(sid, "TimeoutError", "exceeded time budget")

\* ------------------------------------------------------ run_strategies

N == Len(strategies)

Sid(i) == strategies[i]

\* The signals a strategy of a cycle chooses from: over the three symbols of
\* the raw universe, with an exit of s2 that ties the long of s1 on AAA.
CyclePool(sid) ==
    IF sid = "s1"
    THEN {Signal(sid, "AAA", "long", 8, 5, FALSE, <<>>),
          Signal(sid, "CCC", "long", 5, 5, FALSE, <<>>)}
    ELSE {Signal(sid, "AAA", "flat", -5, 8, FALSE, <<>>),
          Signal(sid, "BBB", "short", -6, 5, FALSE, <<>>)}

\* What the decision function of strategy sid may do in this run.  In a
\* cycle it raises, returns something that is not a list, or returns a valid
\* list; a direct call of the runner sees every kind of invalid list too.
Choices(sid) ==
    IF entry = "orchestrate"
    THEN {[raises |-> TRUE, ret |-> ReturnValue(FALSE, <<>>)],
          [raises |-> FALSE, ret |-> ReturnValue(FALSE, <<>>)]}
         \cup {[raises |-> FALSE, ret |-> ReturnValue(TRUE, l)] :
                 l \in ValidLists(CyclePool(sid), MaxReturned)}
    ELSE Behaviours(sid, RunPool(sid), MaxReturned)

Durations == {FastSecs, SlowSecs, Hang}

NewTask == [st |-> "new", start |-> 0, dur |-> 0]

Invoked == {i \in DOMAIN task : task[i].st \in {"running", "done"}}

Queued == {i \in DOMAIN task : task[i].st = "queued"}

Running == {i \in DOMAIN task : task[i].st = "running"}

\* `max_workers <= 1 or len(strategies) <= 1`: the sequential path.
Sequential == max_workers <= 1 \/ N <= 1

\* Threads of the executor that is open: the one-off pool of the sequential
\* path has one, the pool of the parallel path max_workers.
PoolSize == IF Sequential THEN 1 ELSE max_workers

\* create_run: one strategy_runs record, status 'running'.
create_run(store) == [store EXCEPT !.run = "running"]

\* complete_run: the record moves to 'done', or to 'failed' with an error.
complete_run(store, error) ==
    [store EXCEPT !.run = IF error THEN "failed" ELSE "done"]

write_signals_from_result(store, sigs) == [store EXCEPT !.signals = sigs]

\* The optional create_run at the head of run_strategies (persist only).
RunStart ==
    /\ pc = "run_start"
    /\ IF persist
       THEN \E ok \in BOOLEAN :
              IF ok
              THEN /\ db' = create_run(db)
                   /\ pc' = "prefetch"
                   /\ raised' = raised
              ELSE /\ db' = db
                   /\ pc' = "raised"
                   /\ raised' = "OperationalError"
       ELSE /\ pc' = "prefetch"
            /\ UNCHANGED <<db, raised>>
    /\ k' = 1
    /\ UNCHANGED orchVars
    /\ UNCHANGED <<entry, now, strategies, max_workers, timeout_secs, persist,
                   task, waitStart, timedOut, returned, prefetched,
                   ctxUniverse, signals, errors, result, run_universe>>
    /\ UNCHANGED dataVars

\* Phase 1, one strategy: DataAccess(conn, now_ts), prefetch, StrategyContext.
\* required_timeframes()[0] or the range query may raise.
Prefetch ==
    /\ pc = "prefetch"
    /\ k <= N
    /\ \E ok \in BOOLEAN :
         IF ok
         THEN /\ prefetched' = prefetched \cup {k}
              /\ ctxUniverse' = [ctxUniverse EXCEPT ![k] = run_universe]
              /\ k' = k + 1
              /\ UNCHANGED <<pc, raised>>
         ELSE /\ pc' = "raised"
              /\ raised' = "IndexError"
              /\ UNCHANGED <<prefetched, ctxUniverse, k>>
    /\ UNCHANGED orchVars
    /\ UNCHANGED <<entry, now, strategies, max_workers, timeout_secs, persist,
                   task, waitStart, timedOut, returned, signals, errors,
                   result, run_universe, db>>
    /\ UNCHANGED dataVars

\* Phase 2 starts: the sequential path or the pool.
BeginExecute ==
    /\ pc = "prefetch"
    /\ k > N
    /\ pc' = IF Sequential THEN "seq_next" ELSE "par_submit"
    /\ k' = 1
    /\ UNCHANGED orchVars
    /\ UNCHANGED <<entry, now, strategies, max_workers, timeout_secs, persist,
                   task, waitStart, timedOut, returned, prefetched,
                   ctxUniverse, signals, errors, result, run_universe, db,
                   raised>>
    /\ UNCHANGED dataVars

\* signals.extend(result), or errors.append(error) for an exception.
Collect(i, outcome) ==
    /\ returned' = [returned EXCEPT ![i] = Some(outcome)]
    /\ IF outcome.kind = "value"
       THEN /\ signals' = signals \o outcome.items
            /\ errors' = errors
       ELSE /\ signals' = signals
            /\ errors' = Append(errors,
                                StrategyRunError(Sid(i), outcome.etype, outcome.msg))

\* _execute_strategy, up to the point where the calling thread blocks: with
\* a timeout the call is submitted to a one-off pool and awaited, without
\* one the decision function runs on the calling thread.
SeqCall ==
    /\ pc = "seq_next"
    /\ k <= N
    /\ IF timeout_secs /= NoLimit
       THEN /\ task' = [task EXCEPT ![k].st = "queued"]
            /\ waitStart' = now
            /\ pc' = "seq_wait"
       ELSE /\ \E d \in Durations :
                 task' = [task EXCEPT ![k] = [st |-> "running", start |-> now,
                                              dur |-> d]]
            /\ waitStart' = waitStart
            /\ pc' = "seq_inline"
    /\ UNCHANGED orchVars
    /\ UNCHANGED <<entry, k, now, strategies, max_workers, timeout_secs,
                   persist, timedOut, returned, prefetched, ctxUniverse,
                   signals, errors, result, run_universe, db, raised>>
    /\ UNCHANGED dataVars

\* A worker thread takes the oldest queued work item.
StartTask(i) ==
    /\ i \in Queued
    /\ \A j \in Queued : i <= j
    /\ Cardinality(Running) < PoolSize
    /\ \E d \in Durations :
         task' = [task EXCEPT ![i] = [st |-> "running", start |-> now, dur |-> d]]
    /\ UNCHANGED orchVars
    /\ UNCHANGED <<entry, pc, k, now, strategies, max_workers, timeout_secs,
                   persist, waitStart, timedOut, returned, prefetched,
                   ctxUniverse, signals, errors, result, run_universe, db,
                   raised>>
    /\ UNCHANGED dataVars

CanFinish(i) ==
    /\ i \in Running
    /\ task[i].dur /= Hang
    /\ now >= task[i].start + task[i].dur

\* The decision function returns (or raises) and the future is set.
FinishTask(i) ==
    /\ CanFinish(i)
    /\ task' = [task EXCEPT ![i].st = "done"]
    /\ UNCHANGED orchVars
    /\ UNCHANGED <<entry, pc, k, now, strategies, max_workers, timeout_secs,
                   persist, waitStart, timedOut, returned, prefetched,
                   ctxUniverse, signals, errors, result, run_universe, db,
                   raised>>
    /\ UNCHANGED dataVars

\* future.result(timeout) raises TimeoutError: the budget has run out and
\* the future is not done.
TimeoutDue ==
    /\ timeout_secs /= NoLimit
    /\ task[k].st /= "done"
    /\ now >= waitStart + timeout_secs

\* future.result returned in the one-off pool: the with block ends without
\* waiting (the only work item is done) and the result is recorded.
SeqCollect ==
    /\ pc \in {"seq_wait", "seq_inline"}
    /\ task[k].st = "done"
    /\ \E b \in Choices(Sid(k)) :
         Collect(k, _run_one(Sid(k), b))
    /\ k' = k + 1
    /\ pc' = "seq_next"
    /\ UNCHANGED orchVars
    /\ UNCHANGED <<entry, now, strategies, max_workers, timeout_secs, persist,
                   task, waitStart, timedOut, prefetched, ctxUniverse, result,
                   run_universe, db, raised>>
    /\ UNCHANGED dataVars

\* future.result raised TimeoutError inside the with block: the block's exit
\* is shutdown(wait=True), which joins the worker thread.
SeqTimeout ==
    /\ pc = "seq_wait"
    /\ TimeoutDue
    /\ timedOut' = timedOut \cup {k}
    /\ pc' = "seq_join"
    /\ UNCHANGED orchVars
    /\ UNCHANGED <<entry, k, now, strategies, max_workers, timeout_secs,
                   persist, task, waitStart, returned, prefetched, ctxUniverse,
                   signals, errors, result, run_universe, db, raised>>
    /\ UNCHANGED dataVars

\* The join returned; `except TimeoutError` records the error.
SeqJoin ==
    /\ pc = "seq_join"
    /\ task[k].st = "done"
    /\ errors' = Append(errors, TimeoutRecord(Sid(k)))
    /\ k' = k + 1
    /\ pc' = "seq_next"
    /\ UNCHANGED orchVars
    /\ UNCHANGED <<entry, now, strategies, max_workers, timeout_secs, persist,
                   task, waitStart, timedOut, returned, prefetched,
                   ctxUniverse, signals, result, run_universe, db, raised>>
    /\ UNCHANGED dataVars

SeqEnd ==
    /\ pc = "seq_next"
    /\ k > N
    /\ pc' = "aggregate"
    /\ UNCHANGED orchVars
    /\ UNCHANGED <<entry, k, now, strategies, max_workers, timeout_secs,
                   persist, task, waitStart, timedOut, returned, prefetched,
                   ctxUniverse, signals, errors, result, run_universe, db,
                   raised>>
    /\ UNCHANGED dataVars

\* _execute_parallel, the submit loop: pool.submit(_run_one, strategy, ctx).
\* After the last submit the result loop calls future.result on the first.
ParSubmit ==
    /\ pc = "par_submit"
    /\ k <= N
    /\ task' = [task EXCEPT ![k].st = "queued"]
    /\ IF k = N
       THEN /\ pc' = "par_wait"
            /\ k' = 1
            /\ waitStart' = now
       ELSE /\ pc' = pc
            /\ k' = k + 1
            /\ waitStart' = waitStart
    /\ UNCHANGED orchVars
    /\ UNCHANGED <<entry, now, strategies, max_workers, timeout_secs, persist,
                   timedOut, returned, prefetched, ctxUniverse, signals,
                   errors, result, run_universe, db, raised>>
    /\ UNCHANGED dataVars

\* The result loop moves to the next future, and calls its result(timeout)
\* now; after the last one the with block ends in shutdown(wait=True).
ParAdvance ==
    IF k = N
    THEN /\ pc' = "par_join"
         /\ k' = k
         /\ waitStart' = waitStart
    ELSE /\ pc' = pc
         /\ k' = k + 1
         /\ waitStart' = now

ParCollect ==
    /\ pc = "par_wait"
    /\ task[k].st = "done"
    /\ \E b \in Choices(Sid(k)) :
         Collect(k, _run_one(Sid(k), b))
    /\ ParAdvance
    /\ UNCHANGED orchVars
    /\ UNCHANGED <<entry, now, strategies, max_workers, timeout_secs, persist,
                   task, timedOut, prefetched, ctxUniverse, result,
                   run_universe, db, raised>>
    /\ UNCHANGED dataVars

ParTimeout ==
    /\ pc = "par_wait"
    /\ TimeoutDue
    /\ timedOut' = timedOut \cup {k}
    /\ errors' = Append(errors, TimeoutRecord(Sid(k)))
    /\ ParAdvance
    /\ UNCHANGED orchVars
    /\ UNCHANGED <<entry, now, strategies, max_workers, timeout_secs, persist,
                   task, returned, prefetched, ctxUniverse, signals, result,
                   run_universe, db, raised>>
    /\ UNCHANGED dataVars

\* shutdown(wait=True) returns once every submitted work item has run.
ParJoin ==
    /\ pc = "par_join"
    /\ \A i \in DOMAIN task : task[i].st = "done"
    /\ pc' = "aggregate"
    /\ UNCHANGED orchVars
    /\ UNCHANGED <<entry, k, now, strategies, max_workers, timeout_secs,
                   persist, task, waitStart, timedOut, returned, prefetched,
                   ctxUniverse, signals, errors, result, run_universe, db,
                   raised>>
    /\ UNCHANGED dataVars

RunResult(sigs, errs, n) == [signals |-> sigs, errors |-> errs, strategies_run |-> n]

\* Phase 3: signals.sort() and the RunResult.
Aggregate ==
    /\ pc = "aggregate"
    /\ signals' = SortSignals(signals)
    /\ result' = Some(RunResult(signals', errors, N))
    /\ pc' = IF persist THEN "persist_run" ELSE "run_return"
    /\ UNCHANGED orchVars
    /\ UNCHANGED <<entry, k, now, strategies, max_workers, timeout_secs,
                   persist, task, waitStart, timedOut, returned, prefetched,
                   ctxUniverse, errors, run_universe, db, raised>>
    /\ UNCHANGED dataVars

\* Phase 4: write_signals_from_result and complete_run inside try; the
\* handler calls complete_run with the error.  Each write may fail.
PersistRun ==
    /\ pc = "persist_run"
    /\ \E wrote \in BOOLEAN, completed \in BOOLEAN, handled \in BOOLEAN :
         LET written == IF wrote THEN write_signals_from_result(db, signals)
                        ELSE db
         IN  IF wrote /\ completed
             THEN /\ db' = complete_run(written, FALSE)
                  /\ pc' = "run_return"
                  /\ raised' = raised
             ELSE IF handled
             THEN /\ db' = complete_run(written, TRUE)
                  /\ pc' = "run_return"
                  /\ raised' = raised
             ELSE /\ db' = written
                  /\ pc' = "raised"
                  /\ raised' = "OperationalError"
    /\ UNCHANGED orchVars
    /\ UNCHANGED <<entry, k, now, strategies, max_workers, timeout_secs,
                   persist, task, waitStart, timedOut, returned, prefetched,
                   ctxUniverse, signals, errors, result, run_universe>>
    /\ UNCHANGED dataVars

\* The calling thread is blocked in future.result, in a join or in a
\* decision function it runs itself.
Blocked ==
    \/ pc \in {"seq_wait", "par_wait"} /\ task[k].st /= "done" /\ ~TimeoutDue
    \/ pc \in {"seq_join", "seq_inline"} /\ task[k].st /= "done"
    \/ pc = "par_join" /\ \E i \in DOMAIN task : task[i].st /= "done"

CanStart == Queued /= {} /\ Cardinality(Running) < PoolSize

\* Time passes while the calling thread is blocked, no worker has anything
\* to do at this instant, and something is still due: a decision function
\* that will return, or the deadline of the wait.
Tick ==
    /\ Blocked
    /\ ~CanStart
    /\ \A i \in DOMAIN task : ~CanFinish(i)
    /\ \/ \E i \in Running : task[i].dur /= Hang
       \/ pc \in {"seq_wait", "par_wait"} /\ timeout_secs /= NoLimit
    /\ now' = now + 1
    /\ UNCHANGED orchVars
    /\ UNCHANGED <<entry, pc, k, strategies, max_workers, timeout_secs,
                   persist, task, waitStart, timedOut, returned, prefetched,
                   ctxUniverse, signals, errors, result, run_universe, db,
                   raised>>
    /\ UNCHANGED dataVars

\* run_strategies returns its RunResult to whoever called it.
RunReturn ==
    /\ pc = "run_return"
    /\ entry = "run_strategies"
    /\ pc' = "done"
    /\ UNCHANGED orchVars
    /\ UNCHANGED <<entry, k, now, strategies, max_workers, timeout_secs,
                   persist, task, waitStart, timedOut, returned, prefetched,
                   ctxUniverse, signals, errors, result, run_universe, db,
                   raised>>
    /\ UNCHANGED dataVars

EmptyStore == [run |-> "none", signals |-> <<>>, intents |-> <<>>]

UniverseResult(included, excluded) ==
    [included |-> included, excluded |-> excluded]

NoBars == [sym \in Range(SymbolOrder) |-> <<>>]

\* A DataAccess call: the method, and its symbol and lookback_bars where it
\* has them ("" and 0 where not).
Call(method, symbol, lookback_bars) ==
    [method |-> method, symbol |-> symbol, lookback_bars |-> lookback_bars]

\* No DataAccess in use: nothing cached, nothing read.
NoData ==
    /\ cache = [sym \in Range(SymbolOrder) |-> <<>>]
    /\ read = <<>>
    /\ call = Call("", "", 0)

\* No cycle around the call: the cycle's variables hold nothing.
IdleCycle ==
    /\ universe = <<>>
    /\ bars = NoBars
    /\ now_ts = <<>>
    /\ constraints = <<>>
    /\ eval_ts = <<>>
    /\ stale_exclusions = <<>>
    /\ universe_result = UniverseResult(<<>>, <<>>)
    /\ strategy_weights = <<>>
    /\ merged = <<>>
    /\ dropped = <<>>
    /\ sizing = <<>>
    /\ targets = <<>>
    /\ intent = <<>>
    /\ NoData

\* A direct call of run_strategies.
InitRun ==
    /\ entry = "run_strategies"
    /\ pc = "run_start"
    /\ k = 1
    /\ now = 0
    /\ strategies = StrategyIds
    /\ max_workers \in {1, 2}
    /\ timeout_secs \in {NoLimit, TimeoutSecs}
    /\ persist = FALSE
    /\ task = [i \in DOMAIN StrategyIds |-> NewTask]
    /\ waitStart = 0
    /\ timedOut = {}
    /\ returned = [i \in DOMAIN StrategyIds |-> <<>>]
    /\ prefetched = {}
    /\ ctxUniverse = [i \in DOMAIN StrategyIds |-> <<>>]
    /\ signals = <<>>
    /\ errors = <<>>
    /\ result = <<>>
    /\ run_universe = <<"AAA", "BBB">>
    /\ db = EmptyStore
    /\ raised = None
    /\ IdleCycle

vars == <<entry, pc, k, now, strategies, max_workers, timeout_secs, persist,
          task, waitStart, timedOut, returned, prefetched, ctxUniverse,
          signals, errors, result, run_universe, db, raised, universe, bars,
          now_ts, constraints, eval_ts, stale_exclusions, universe_result,
          strategy_weights, merged, dropped, sizing, targets, intent,
          cache, read, call>>

NextRun ==
    \/ RunStart
    \/ Prefetch
    \/ BeginExecute
    \/ SeqCall
    \/ \E i \in DOMAIN task : StartTask(i)
    \/ \E i \in DOMAIN task : FinishTask(i)
    \/ SeqCollect
    \/ SeqTimeout
    \/ SeqJoin
    \/ SeqEnd
    \/ ParSubmit
    \/ ParCollect
    \/ ParTimeout
    \/ ParJoin
    \/ Aggregate
    \/ RunReturn
    \/ Tick

SpecRun == InitRun /\ [][NextRun]_vars

\* With fairness: a step that can be taken is taken.  The calling thread and
\* the worker threads are scheduled by the operating system; a decision
\* function that hangs is one FinishTask is never enabled for.
FairSpecRun == SpecRun /\ WF_vars(NextRun)

\* ============================================================ deconflict
\* src/src/orchestrator/deconflict.py.  regime is None in every call the
\* cycle makes, so every regime multiplier is 1.

_DEFAULT_STRATEGY_WEIGHT == 1

\* strategy_weights.get(sid, _DEFAULT_STRATEGY_WEIGHT)
WeightOf(weights, sid) ==
    IF sid \in DOMAIN weights THEN weights[sid]
    ELSE _DEFAULT_STRATEGY_WEIGHT

_regime_multiplier(sig) == 1

_effective_weight(sig, weights) ==
    IF sig.alpha_net /= <<>>
    THEN Abs(sig.alpha_net[1]) * _regime_multiplier(sig)
    ELSE Abs(sig.strength) * sig.confidence
            * WeightOf(weights, sig.strategy_id)
            * _regime_multiplier(sig)

\* The vote without its sign: a short counted like a long.
_net_vote_unsigned(sig, weights) == _effective_weight(sig, weights)

_net_vote_contribution(sig, weights) ==
    IF sig.alpha_net /= <<>>
    THEN sig.alpha_net[1] * _regime_multiplier(sig)
    ELSE LET vote == Abs(sig.strength) * sig.confidence
                        * WeightOf(weights, sig.strategy_id)
                        * _regime_multiplier(sig)
         IN IF sig.side = "short" THEN -vote ELSE vote

DroppedSignal(sig, reason, detail) ==
    [strategy_id |-> sig.strategy_id, symbol |-> sig.symbol, side |-> sig.side,
     strength |-> sig.strength, confidence |-> sig.confidence,
     reason |-> reason, detail |-> detail]

SignalContribution(sig, ew) ==
    [strategy_id |-> sig.strategy_id, side |-> sig.side,
     strength |-> sig.strength, confidence |-> sig.confidence, weight |-> ew,
     horizon_bars |-> sig.horizon_bars, alpha_net |-> sig.alpha_net]

\* A quotient n / d kept exact; 0 / 1 when the code's guard total_weight > 0
\* fails.
Quot(n, d) == IF d > 0 THEN [n |-> n, d |-> d] ELSE [n |-> 0, d |-> 1]

\* Python's round(n / d) for n >= 0, d > 0: to the nearest integer, a half
\* to the even one.
RoundHalfEven(n, d) ==
    LET q == n \div d
        r == n % d
    IN IF 2 * r < d THEN q
       ELSE IF 2 * r > d THEN q + 1
       ELSE IF q % 2 = 0 THEN q ELSE q + 1

Max(a, b) == IF a >= b THEN a ELSE b

Min(a, b) == IF a <= b THEN a ELSE b

MapSeq(s, Op(_)) == [i \in DOMAIN s |-> Op(s[i])]

SumOver(s, Op(_)) == SeqSum(MapSeq(s, Op))

RECURSIVE TightestStop(_, _, _)
\* The stop of the contributors, the highest for a long, the lowest for a
\* short; acc is the option carried through the loop.
TightestStop(sigs, side, acc) ==
    IF sigs = <<>> THEN acc
    ELSE LET s == Head(sigs)
             nxt == IF s.stop_price = <<>> THEN acc
                    ELSE IF acc = <<>> THEN s.stop_price
                    ELSE IF side = "long"
                         THEN <<Max(acc[1], s.stop_price[1])>>
                         ELSE <<Min(acc[1], s.stop_price[1])>>
         IN TightestStop(Tail(sigs), side, nxt)

RECURSIVE NearestTp(_, _, _)
NearestTp(sigs, side, acc) ==
    IF sigs = <<>> THEN acc
    ELSE LET s == Head(sigs)
             nxt == IF s.take_profit_price = <<>> THEN acc
                    ELSE IF acc = <<>> THEN s.take_profit_price
                    ELSE IF side = "long"
                         THEN <<Min(acc[1], s.take_profit_price[1])>>
                         ELSE <<Max(acc[1], s.take_profit_price[1])>>
         IN NearestTp(Tail(sigs), side, nxt)

\* sum_alpha if has_alpha else None
AggAlpha(sigs) ==
    LET with == SelectSeq(sigs, LAMBDA s : s.alpha_net /= <<>>)
    IN IF with = <<>> THEN <<>>
       ELSE <<SumOver(with, LAMBDA s : s.alpha_net[1])>>

_build_directional_merged(symbol, side, sigs, weights) ==
    LET ew(s) == _effective_weight(s, weights)
        total_weight == SumOver(sigs, ew)
        weighted_strength == SumOver(sigs, LAMBDA s : s.strength * ew(s))
        weighted_confidence == SumOver(sigs, LAMBDA s : s.confidence * ew(s))
        weighted_horizon == SumOver(sigs, LAMBDA s : s.horizon_bars * ew(s))
    IN [symbol |-> symbol,
        side |-> side,
        agg_strength |-> Quot(weighted_strength, total_weight),
        agg_confidence |-> Quot(weighted_confidence, total_weight),
        agg_alpha |-> AggAlpha(sigs),
        horizon_bars |-> IF total_weight > 0
                         THEN Max(1, RoundHalfEven(weighted_horizon,
                                                   total_weight))
                         ELSE 1,
        stop_hint |-> TightestStop(sigs, side, <<>>),
        tp_hint |-> NearestTp(sigs, side, <<>>),
        contributions |-> MapSeq(sigs, LAMBDA s : SignalContribution(s, ew(s)))]

_build_exit_merged(symbol, sigs, weights) ==
    LET ew(s) == _effective_weight(s, weights)
        total_weight == SumOver(sigs, ew)
        weighted_strength == SumOver(sigs, LAMBDA s : s.strength * ew(s))
        weighted_confidence == SumOver(sigs, LAMBDA s : s.confidence * ew(s))
    IN [symbol |-> symbol,
        side |-> "flat",
        agg_strength |-> Quot(weighted_strength, total_weight),
        agg_confidence |-> Quot(weighted_confidence, total_weight),
        agg_alpha |-> AggAlpha(sigs),
        horizon_bars |-> 1,
        stop_hint |-> <<>>,
        tp_hint |-> <<>>,
        contributions |-> MapSeq(sigs, LAMBDA s : SignalContribution(s, ew(s)))]

\* FLAT with negative strength is an exit; every other signal is directional.
IsExit(s) == s.side = "flat" /\ s.strength < 0

\* The outcome of merging one symbol: the MergedSignal as an option and the
\* DroppedSignals the call appends to the dropped list.
MergeOutcome(m, drops) == [merged |-> m, dropped |-> drops]

\* The directional consensus that leaves the signals opposite to the
\* consensus side out without a drop record.
DirectionalConsensusSilent(symbol, directional_sigs, weights, drops) ==
    LET net_vote == SumOver(directional_sigs,
                        LAMBDA s : _net_vote_contribution(s, weights))
        consensus_side == IF net_vote > 0 THEN "long" ELSE "short"
        sig_side(s) == IF s.side = "short" THEN "short" ELSE "long"
        same_side == SelectSeq(directional_sigs,
                               LAMBDA s : sig_side(s) = consensus_side)
        opposite == SelectSeq(directional_sigs,
                              LAMBDA s : sig_side(s) /= consensus_side)
    IN IF net_vote = 0
       THEN MergeOutcome(<<>>,
                drops \o MapSeq(directional_sigs,
                    LAMBDA s : DroppedSignal(s, "conflicting sides",
                                             "Net directional vote is zero")))
       ELSE LET d == drops
            IN IF same_side = <<>> THEN MergeOutcome(<<>>, d)
               ELSE MergeOutcome(
                        <<_build_directional_merged(symbol, consensus_side,
                                                    same_side,
                                                    weights)>>, d)

\* The directional consensus, after the contest with the exits (if any) was
\* won by the directionals; drops holds what the contest appended.
DirectionalConsensus(symbol, directional_sigs, weights, drops) ==
    LET net_vote == SumOver(directional_sigs,
                        LAMBDA s : _net_vote_contribution(s, weights))
        consensus_side == IF net_vote > 0 THEN "long" ELSE "short"
        sig_side(s) == IF s.side = "short" THEN "short" ELSE "long"
        same_side == SelectSeq(directional_sigs,
                               LAMBDA s : sig_side(s) = consensus_side)
        opposite == SelectSeq(directional_sigs,
                              LAMBDA s : sig_side(s) /= consensus_side)
    IN IF net_vote = 0
       THEN MergeOutcome(<<>>,
                drops \o MapSeq(directional_sigs,
                    LAMBDA s : DroppedSignal(s, "conflicting sides",
                                             "Net directional vote is zero")))
       ELSE LET d == drops \o MapSeq(opposite,
                        LAMBDA s : DroppedSignal(s, "conflicting sides",
                                                 "Opposite to consensus side"))
            IN IF same_side = <<>> THEN MergeOutcome(<<>>, d)
               ELSE MergeOutcome(
                        <<_build_directional_merged(symbol, consensus_side,
                                                    same_side,
                                                    weights)>>, d)

\* A contest in which the exits need strictly more weight.
ExitWinsStrict(exit_weight, dir_weight) == exit_weight > dir_weight

\* Exit wins ties: the comparison of the contest.
ExitWins(exit_weight, dir_weight) == exit_weight >= dir_weight

_merge_symbol_signals(symbol, sigs, weights) ==
    LET exit_sigs == SelectSeq(sigs, IsExit)
        directional_sigs == SelectSeq(sigs, LAMBDA s : ~IsExit(s))
        ew(s) == _effective_weight(s, weights)
        exit_weight == SumOver(exit_sigs, ew)
        dir_weight == SumOver(directional_sigs, ew)
    IN IF \E i \in DOMAIN sigs : sigs[i].veto
       THEN MergeOutcome(<<>>,
                MapSeq(sigs, LAMBDA s : DroppedSignal(s, "vetoed",
                                            "Symbol vetoed by signal tag")))
       ELSE IF exit_sigs /= <<>> /\ directional_sigs = <<>>
       THEN MergeOutcome(<<_build_exit_merged(symbol, exit_sigs,
                                              weights)>>, <<>>)
       ELSE IF directional_sigs = <<>> /\ exit_sigs = <<>>
       THEN MergeOutcome(<<>>, <<>>)
       ELSE IF exit_sigs /= <<>> /\ ExitWins(exit_weight, dir_weight)
       THEN MergeOutcome(
                <<_build_exit_merged(symbol, exit_sigs, weights)>>,
                MapSeq(directional_sigs,
                    LAMBDA s : DroppedSignal(s, "conflicting sides",
                                "Exit signals outweigh directional signals")))
       ELSE DirectionalConsensus(symbol, directional_sigs, weights,
                MapSeq(exit_sigs,
                    LAMBDA s : DroppedSignal(s, "conflicting sides",
                                "Directional signals outweigh exit signals")))

\* The first loop without the test against the filtered universe.
PreDropReasonAnySymbol(sig, univ) ==
    IF sig.alpha_net /= <<>> /\ sig.alpha_net[1] = 0
    THEN "below cost threshold"
    ELSE IF sig.strength = 0 THEN "zero strength"
    ELSE ""

\* The first loop of deconflict_signals: why a signal never reaches the
\* per-symbol merge, "" when it does.
PreDropReason(sig, univ) ==
    IF sig.symbol \notin Range(univ) THEN "symbol excluded"
    ELSE IF sig.alpha_net /= <<>> /\ sig.alpha_net[1] = 0
         THEN "below cost threshold"
    ELSE IF sig.strength = 0 THEN "zero strength"
    ELSE ""

\* The magnitude a merged signal is ranked by, as a quotient in whole units:
\* |agg_alpha| (hundredths) when there is one, else |agg_strength| (tenths).
MergedRank(m) ==
    IF m.agg_alpha /= <<>> THEN [n |-> Abs(m.agg_alpha[1]), d |-> 100]
    ELSE [n |-> Abs(m.agg_strength.n), d |-> m.agg_strength.d * 10]

\* key(a) < key(b) for key = (-rank, symbol)
MergedLt(a, b) ==
    LET ra == MergedRank(a)
        rb == MergedRank(b)
    IN \/ ra.n * rb.d > rb.n * ra.d
       \/ /\ ra.n * rb.d = rb.n * ra.d
          /\ SymRank(a.symbol) < SymRank(b.symbol)

RECURSIVE InsertMerged(_, _)
InsertMerged(x, s) ==
    IF s = <<>> THEN <<x>>
    ELSE IF MergedLt(x, Head(s)) THEN <<x>> \o s
    ELSE <<Head(s)>> \o InsertMerged(x, Tail(s))

RECURSIVE SortMerged(_)
SortMerged(s) ==
    IF s = <<>> THEN <<>>
    ELSE InsertMerged(s[Len(s)], SortMerged(SubSeq(s, 1, Len(s) - 1)))

\* deconflict_signals with regime = None and min_symbol_alpha = 0.0, as the
\* cycle calls it: (merged_signals, dropped_signals).
deconflict_signals(sigs, univ, weights) ==
    LET pre == SelectSeq(sigs, LAMBDA s : PreDropReason(s, univ) /= "")
        kept == SelectSeq(sigs, LAMBDA s : PreDropReason(s, univ) = "")
        by_symbol(sym) == SelectSeq(kept, LAMBDA s : s.symbol = sym)
        \* sorted(by_symbol.items()): the symbols with signals, ascending
        present == SelectSeq(SymbolOrder, LAMBDA sym : by_symbol(sym) /= <<>>)
        outcome == MapSeq(present,
                    LAMBDA sym : _merge_symbol_signals(sym, by_symbol(sym),
                                                       weights))
    IN [merged |-> SortMerged(Flatten(MapSeq(outcome, LAMBDA o : o.merged))),
        dropped |->
            MapSeq(pre, LAMBDA s : DroppedSignal(s, PreDropReason(s, univ),
                                                 ""))
            \o Flatten(MapSeq(outcome, LAMBDA o : o.dropped))]

\* ------------------------------------------- deconflict_signals on its own

\* Longest signals list deconflict_signals is called with directly.
MaxSignals == 3

\* The universe of a direct call.
DeconflictUniverse == <<"AAA", "BBB">>

\* The signals a direct call draws its list from: longs, shorts and exits of
\* equal and of different effective weight, a FLAT of positive strength,
\* veto-tagged signals of zero and of non-zero strength, signals with
\* alpha_net (zero and non-zero), one outside the universe, two with hints.
DeconflictPool ==
    {Signal("s1", "AAA", "long", 8, 5, FALSE, <<>>),
     Signal("s2", "AAA", "flat", -5, 8, FALSE, <<>>),
     Signal("s2", "AAA", "short", -8, 5, FALSE, <<>>),
     Signal("s3", "AAA", "long", 3, 5, FALSE, <<>>),
     Signal("s3", "AAA", "flat", 0, 5, TRUE, <<>>),
     Signal("s3", "AAA", "flat", -3, 5, TRUE, <<>>),
     Signal("s1", "BBB", "flat", 4, 5, FALSE, <<>>),
     Signal("s2", "BBB", "long", 5, 8, FALSE, <<30>>),
     Signal("s2", "BBB", "short", -6, 5, FALSE, <<-20>>),
     Signal("s3", "BBB", "short", -5, 8, FALSE, <<0>>),
     Signal("s3", "BBB", "flat", -3, 5, TRUE, <<0>>),
     Signal("s1", "ZZZ", "long", 5, 5, FALSE, <<>>),
     Signal("s1", "BBB", "long", -4, 5, FALSE, <<-20>>),
     WithHints(Signal("s1", "AAA", "long", 6, 5, FALSE, <<>>), 3, <<95>>, <<120>>),
     WithHints(Signal("s3", "AAA", "long", 4, 5, FALSE, <<>>), 6, <<97>>, <<110>>)}

\* The strategy_weights argument: None in a cycle; in a direct call None, or
\* a weight for one strategy.
WeightChoices ==
    IF entry = "orchestrate" THEN {[x \in {} |-> 1]}
    ELSE {[x \in {} |-> 1], [x \in {"s2"} |-> 2]}

\* Step 3 of the cycle, and a direct call: deconflict_signals(signals,
\* universe_result.included, strategy_weights).
Deconflict ==
    /\ pc = "deconflict"
    /\ \E w \in WeightChoices :
         LET r == deconflict_signals(signals, universe_result.included, w)
         IN /\ strategy_weights' = w
            /\ merged' = r.merged
            /\ dropped' = r.dropped
    /\ pc' = IF entry = "orchestrate" THEN "size" ELSE "done"
    /\ UNCHANGED <<entry, k, now, strategies, max_workers, timeout_secs,
                   persist, task, waitStart, timedOut, returned, prefetched,
                   ctxUniverse, signals, errors, result, run_universe, db,
                   raised, universe, bars, now_ts, constraints, eval_ts,
                   stale_exclusions, universe_result, sizing, targets, intent>>
    /\ UNCHANGED dataVars

InitDeconflict ==
    /\ entry = "deconflict_signals"
    /\ pc = "deconflict"
    /\ k = 1
    /\ now = 0
    /\ strategies = StrategyIds
    /\ max_workers = 1
    /\ timeout_secs = NoLimit
    /\ persist = FALSE
    /\ task = [i \in DOMAIN StrategyIds |-> NewTask]
    /\ waitStart = 0
    /\ timedOut = {}
    /\ returned = [i \in DOMAIN StrategyIds |-> <<>>]
    /\ prefetched = {}
    /\ ctxUniverse = [i \in DOMAIN StrategyIds |-> <<>>]
    /\ signals \in SeqsUpTo(DeconflictPool, MaxSignals)
    /\ errors = <<>>
    /\ result = <<>>
    /\ run_universe = <<>>
    /\ db = EmptyStore
    /\ raised = None
    /\ universe = <<>>
    /\ bars = NoBars
    /\ now_ts = <<>>
    /\ constraints = <<>>
    /\ eval_ts = <<>>
    /\ stale_exclusions = <<>>
    /\ universe_result = UniverseResult(DeconflictUniverse, <<>>)
    /\ strategy_weights = <<>>
    /\ merged = <<>>
    /\ dropped = <<>>
    /\ sizing = <<>>
    /\ targets = <<>>
    /\ intent = <<>>
    /\ NoData

NextDeconflict == Deconflict

SpecDeconflict == InitDeconflict /\ [][NextDeconflict]_vars

\* ================================================================ the cycle
\* src/src/orchestrator/orchestrate.py and what it calls.  Timestamps are
\* whole days; the timeframe is the primary one, "1Day".

Bar(ts, close, volume) == [ts |-> ts, close |-> close, volume |-> volume]

\* OrchestratorConfig.max_staleness["1Day"] = 2880 minutes, in days.
MaxStalenessDays == 2

\* OrchestratorConfig.max_stale_pct = 0.50, in percent.
MaxStalePct == 50

_VOLUME_LOOKBACK_BARS == 20

LastN(s, n) == IF Len(s) <= n THEN s ELSE SubSeq(s, Len(s) - n + 1, Len(s))

\* get_window: the bars with ts <= end_ts, the newest `lookback` of them,
\* oldest first.
get_window(store, symbol, end_ts, lookback) ==
    LastN(SelectSeq(store[symbol], LAMBDA b : b.ts <= end_ts), lookback)

SetMax(S) == CHOOSE x \in S : \A y \in S : y <= x

SetMin(S) == CHOOSE x \in S : \A y \in S : x <= y

\* SELECT MAX(ts) FROM bars WHERE symbol = ?: an option.
LatestTs(store, symbol) ==
    IF store[symbol] = <<>> THEN <<>>
    ELSE <<SetMax({store[symbol][i].ts : i \in DOMAIN store[symbol]})>>

\* datetime.now(timezone.utc): an instant after every bar of the store.
UtcNow(store) ==
    1 + SetMax({0} \cup UNION {{store[s][i].ts : i \in DOMAIN store[s]} :
                                 s \in DOMAIN store})

EvalTimestampResult(ts, fresh, stale, missing) ==
    [eval_ts |-> ts, fresh_symbols |-> fresh, stale_symbols |-> stale,
     missing_symbols |-> missing]

\* resolve_eval_ts taking the freshest bar of all instead of the minimum over
\* the fresh symbols.
resolve_eval_ts_freshest(store, symbols, max_staleness) ==
    LET missing == SelectSeq(symbols, LAMBDA s : LatestTs(store, s) = <<>>)
        with_data == SelectSeq(symbols, LAMBDA s : LatestTs(store, s) /= <<>>)
        latest(s) == LatestTs(store, s)[1]
        freshest_ts == SetMax({latest(s) : s \in Range(with_data)})
        is_stale(s) == /\ max_staleness /= <<>>
                       /\ freshest_ts - latest(s) > max_staleness[1]
        fresh == SelectSeq(with_data, LAMBDA s : ~is_stale(s))
        stale == SelectSeq(with_data, is_stale)
    IN IF symbols = <<>>
       THEN EvalTimestampResult(UtcNow(store), <<>>, <<>>, <<>>)
       ELSE IF with_data = <<>>
       THEN EvalTimestampResult(UtcNow(store), <<>>, <<>>, missing)
       ELSE EvalTimestampResult(
                freshest_ts,
                fresh, stale, missing)

\* max_staleness is an option: None switches the staleness check off.
resolve_eval_ts(store, symbols, max_staleness) ==
    LET missing == SelectSeq(symbols, LAMBDA s : LatestTs(store, s) = <<>>)
        with_data == SelectSeq(symbols, LAMBDA s : LatestTs(store, s) /= <<>>)
        latest(s) == LatestTs(store, s)[1]
        freshest_ts == SetMax({latest(s) : s \in Range(with_data)})
        is_stale(s) == /\ max_staleness /= <<>>
                       /\ freshest_ts - latest(s) > max_staleness[1]
        fresh == SelectSeq(with_data, LAMBDA s : ~is_stale(s))
        stale == SelectSeq(with_data, is_stale)
    IN IF symbols = <<>>
       THEN EvalTimestampResult(UtcNow(store), <<>>, <<>>, <<>>)
       ELSE IF with_data = <<>>
       THEN EvalTimestampResult(UtcNow(store), <<>>, <<>>, missing)
       ELSE EvalTimestampResult(
                IF fresh /= <<>>
                THEN SetMin({latest(s) : s \in Range(fresh)})
                ELSE freshest_ts,
                fresh, stale, missing)

SymbolExclusion(symbol, reason, detail) ==
    [symbol |-> symbol, reason |-> reason, detail |-> detail]

Constraints(exclude_symbols, min_price, min_avg_volume, max_names) ==
    [exclude_symbols |-> exclude_symbols, min_price |-> min_price,
     min_avg_volume |-> min_avg_volume, max_names |-> max_names]

RECURSIVE SortSymbols(_)
\* sorted(symbols)
SortSymbols(symbols) ==
    IF symbols = <<>> THEN <<>>
    ELSE LET first == CHOOSE s \in Range(symbols) :
                        \A t \in Range(symbols) : SymRank(s) <= SymRank(t)
         IN SelectSeq(symbols, LAMBDA s : s = first)
            \o SortSymbols(SelectSeq(symbols, LAMBDA s : s /= first))

\* The volumes of the lookback window that are not None, and their mean as
\* the pair (sum, count); the code's mean of no volumes is 0.0.
AvgVolume(window) ==
    LET volumes == SelectSeq(window, LAMBDA b : b.volume /= <<>>)
    IN IF volumes = <<>> THEN [n |-> 0, d |-> 1]
       ELSE [n |-> SumOver(volumes, LAMBDA b : b.volume[1]),
             d |-> Len(volumes)]

\* The loop's checks with the volume floor tested before the price floor.
ExclusionReasonVolumeFirst(store, symbol, c, as_of) ==
    LET window == get_window(store, symbol, as_of, _VOLUME_LOOKBACK_BARS)
        latest_close == window[Len(window)].close
        avg == AvgVolume(window)
    IN IF symbol \in c.exclude_symbols THEN "manually_excluded"
       ELSE IF window = <<>> THEN "insufficient_data"
       ELSE IF c.min_avg_volume /= <<>> /\ avg.n < c.min_avg_volume[1] * avg.d
            THEN "below_min_volume"
       ELSE IF c.min_price /= <<>> /\ latest_close < c.min_price[1]
            THEN "below_min_price"
       ELSE ""

\* Why filter_universe's loop excludes a symbol, "" when it includes it.
ExclusionReason(store, symbol, c, as_of) ==
    LET window == get_window(store, symbol, as_of, _VOLUME_LOOKBACK_BARS)
        latest_close == window[Len(window)].close
        avg == AvgVolume(window)
    IN IF symbol \in c.exclude_symbols THEN "manually_excluded"
       ELSE IF window = <<>> THEN "insufficient_data"
       ELSE IF c.min_price /= <<>> /\ latest_close < c.min_price[1]
            THEN "below_min_price"
       ELSE IF c.min_avg_volume /= <<>> /\ avg.n < c.min_avg_volume[1] * avg.d
            THEN "below_min_volume"
       ELSE ""

\* volume_ranking.sort(key = avg_volume, reverse = True): the places of the
\* included symbols; a symbol's place counts those of larger mean volume and
\* those of equal mean volume listed before it (the sort is stable).
VolumePlace(store, included, i, as_of) ==
    LET avg(j) == AvgVolume(get_window(store, included[j], as_of,
                                       _VOLUME_LOOKBACK_BARS))
    IN 1 + Cardinality({j \in DOMAIN included :
            \/ avg(j).n * avg(i).d > avg(i).n * avg(j).d
            \/ /\ avg(j).n * avg(i).d = avg(i).n * avg(j).d
               /\ j < i})

filter_universe(store, symbols, c, as_of) ==
    LET ordered == SortSymbols(symbols)
        reason(s) == ExclusionReason(store, s, c, as_of)
        passed == SelectSeq(ordered, LAMBDA s : reason(s) = "")
        failed == SelectSeq(ordered, LAMBDA s : reason(s) /= "")
        excluded == MapSeq(failed, LAMBDA s : SymbolExclusion(s, reason(s), ""))
        over == c.max_names /= <<>> /\ Len(passed) > c.max_names[1]
        \* kept = {s for s, _ in volume_ranking[:max_names]}: a set of symbols
        kept == {passed[i] : i \in {j \in DOMAIN passed :
                    VolumePlace(store, passed, j, as_of) <= c.max_names[1]}}
    IN IF ~over
       THEN UniverseResult(SortSymbols(passed), excluded)
       ELSE UniverseResult(
              SortSymbols(SelectSeq(passed, LAMBDA s : s \in kept)),
              excluded \o MapSeq(
                    SelectSeq(passed, LAMBDA s : s \notin kept),
                    LAMBDA s : SymbolExclusion(s, "max_names_exceeded", "")))

\* ------------------------------------------------------------------ sizing
\* src/src/orchestrator/sizing.py.  Equity is whole dollars and the two risk
\* limits are percent, so a notional is in cents; quotients are kept exact
\* until the code rounds.

RECURSIVE GCD(_, _)
GCD(a, b) == IF b = 0 THEN a ELSE GCD(b, a % b)

\* The quotient n / d (d > 0) in lowest terms.
Rat(n, d) ==
    LET g == GCD(Abs(n), d)
    IN [n |-> n \div g, d |-> d \div g]

RAdd(x, y) == Rat(x.n * y.d + y.n * x.d, x.d * y.d)

RSub(x, y) == Rat(x.n * y.d - y.n * x.d, x.d * y.d)

RMul(x, y) == Rat(x.n * y.n, x.d * y.d)

\* x / y for y > 0
RDiv(x, y) == Rat(x.n * y.d, x.d * y.n)

RLt(x, y) == x.n * y.d < y.n * x.d

\* A min that lets its first argument through.
RMinFirst(x, y) == x

RMin(x, y) == IF RLt(y, x) THEN y ELSE x

RECURSIVE RSum(_)
RSum(s) == IF s = <<>> THEN Rat(0, 1) ELSE RAdd(Head(s), RSum(Tail(s)))

\* round(x) of a quotient of either sign: Python rounds a half to even.
RRound(x) ==
    IF x.n >= 0 THEN RoundHalfEven(x.n, x.d) ELSE -RoundHalfEven(-x.n, x.d)

\* target_notional is round(dollars, 2), here whole cents; target_pct is
\* round(notional / equity, 6), here millionths.
_build_target(m, notional, equity) ==
    LET signed_notional == IF m.side = "long" THEN notional
                           ELSE Rat(-notional.n, notional.d)
    IN [symbol |-> m.symbol,
        target_notional |-> RRound(signed_notional),
        target_pct |-> IF equity > 0
                       THEN RRound(RMul(Rat(signed_notional.n,
                                            signed_notional.d * equity),
                                        Rat(10000, 1)))
                       ELSE 0,
        confidence |-> m.agg_confidence,
        horizon_bars |-> m.horizon_bars,
        stop_hint |-> m.stop_hint,
        tp_hint |-> m.tp_hint,
        provenance |-> m.contributions]

\* Equal-weight sizing that splits the exposure cap and forgets the cap per
\* position.
_size_equal_weight_uncapped(sigs, equity, max_total, max_per_position) ==
    IF sigs = <<>> THEN <<>>
    ELSE LET per_position == RDiv(max_total, Rat(Len(sigs), 1))
         IN MapSeq(sigs, LAMBDA m : _build_target(m, per_position, equity))

_size_equal_weight(sigs, equity, max_total, max_per_position) ==
    IF sigs = <<>> THEN <<>>
    ELSE LET per_position == RMin(RDiv(max_total, Rat(Len(sigs), 1)),
                                  max_per_position)
         IN MapSeq(sigs, LAMBDA m : _build_target(m, per_position, equity))

\* |agg_alpha| when there is one, else |agg_strength| * agg_confidence: in
\* hundredths.
RawWeight(m) ==
    IF m.agg_alpha /= <<>> THEN Rat(Abs(m.agg_alpha[1]), 1)
    ELSE Rat(Abs(m.agg_strength.n) * m.agg_confidence.n,
             m.agg_strength.d * m.agg_confidence.d)

_size_signal_weighted(sigs, equity, max_total, max_per_position) ==
    LET raw_weights == MapSeq(sigs, RawWeight)
        total_raw == RSum(raw_weights)
        first(i) == RMul(RDiv(raw_weights[i], total_raw), max_total)
        over(i) == RLt(max_per_position, first(i))
        capped(i) == IF over(i) THEN max_per_position ELSE first(i)
        excess == RSum([i \in DOMAIN sigs |->
                          IF over(i) THEN RSub(first(i), max_per_position)
                          ELSE Rat(0, 1)])
        uncapped_count == Cardinality({i \in DOMAIN sigs : ~over(i)})
        bonus == RDiv(excess, Rat(uncapped_count, 1))
        final(i) == IF excess.n > 0 /\ uncapped_count > 0
                       /\ RLt(capped(i), max_per_position)
                    THEN RMin(RAdd(capped(i), bonus), max_per_position)
                    ELSE capped(i)
    IN IF sigs = <<>> THEN <<>>
       ELSE IF total_raw.n = 0
       THEN _size_equal_weight(sigs, equity, max_total, max_per_position)
       ELSE [i \in DOMAIN sigs |-> _build_target(sigs[i], final(i), equity)]

\* The arguments of compute_targets besides the merged signals.
Sizing(equity, max_position_pct, max_portfolio_exposure_pct, method) ==
    [equity |-> equity, max_position_pct |-> max_position_pct,
     max_portfolio_exposure_pct |-> max_portfolio_exposure_pct,
     method |-> method, long_only |-> FALSE]

\* RiskLimits(long_only=True)
LongOnly(a) == [a EXCEPT !.long_only = TRUE]

\* The long-only policy: the short-side directional signals are left out
\* before sizing.
long_only_filter(directional, a) ==
    IF a.long_only THEN SelectSeq(directional, LAMBDA m : m.side /= "short")
    ELSE directional

\* compute_targets whose long-only policy keeps the long side only and so
\* loses the exits with the shorts.
compute_targets_long_side_only(merged_signals, a) ==
    LET max_notional == Rat(a.equity * a.max_portfolio_exposure_pct, 1)
        max_per_position == Rat(a.equity * a.max_position_pct, 1)
        kept == IF a.long_only
                THEN SelectSeq(merged_signals, LAMBDA m : m.side = "long")
                ELSE merged_signals
        directional == SelectSeq(kept, LAMBDA m : m.side /= "flat")
        exits == SelectSeq(kept, LAMBDA m : m.side = "flat")
        sized == IF a.method = "equal_weight"
                 THEN _size_equal_weight(directional, a.equity, max_notional,
                                         max_per_position)
                 ELSE _size_signal_weighted(directional, a.equity,
                                            max_notional, max_per_position)
    IN IF merged_signals = <<>> \/ a.equity <= 0 THEN <<>>
       ELSE sized \o MapSeq(exits, LAMBDA m :
                [symbol |-> m.symbol, target_notional |-> 0, target_pct |-> 0,
                 confidence |-> m.agg_confidence,
                 horizon_bars |-> m.horizon_bars, stop_hint |-> m.stop_hint,
                 tp_hint |-> m.tp_hint, provenance |-> m.contributions])

compute_targets(merged_signals, a) ==
    LET max_notional == Rat(a.equity * a.max_portfolio_exposure_pct, 1)
        max_per_position == Rat(a.equity * a.max_position_pct, 1)
        directional == long_only_filter(
                         SelectSeq(merged_signals, LAMBDA m : m.side /= "flat"),
                         a)
        exits == SelectSeq(merged_signals, LAMBDA m : m.side = "flat")
        sized == IF a.method = "equal_weight"
                 THEN _size_equal_weight(directional, a.equity, max_notional,
                                         max_per_position)
                 ELSE _size_signal_weighted(directional, a.equity,
                                            max_notional, max_per_position)
    IN IF merged_signals = <<>> \/ a.equity <= 0 THEN <<>>
       ELSE sized \o MapSeq(exits, LAMBDA m :
                [symbol |-> m.symbol, target_notional |-> 0, target_pct |-> 0,
                 confidence |-> m.agg_confidence,
                 horizon_bars |-> m.horizon_bars, stop_hint |-> m.stop_hint,
                 tp_hint |-> m.tp_hint, provenance |-> m.contributions])

\* ------------------------------------------------------------- orchestrate

PortfolioIntent(as_of, univ, used, drops, tgts, allowed) ==
    [as_of_ts |-> as_of, universe |-> univ, signals_used |-> used,
     signals_dropped |-> drops, targets |-> tgts, strategy_run_id |-> None,
     trade_allowed |-> allowed]

ensure_intent_schema(store) == store

write_intent(store, it) == [store EXCEPT !.intents = Append(@, it)]

\* The short-circuit test counting only the stale symbols, not the missing.
NoTradeStaleOnly(univ, ts_result) ==
    univ /= <<>> /\ Len(ts_result.stale_symbols) * 100 > MaxStalePct * Len(univ)

\* `universe and bad_count / len(universe) > orch_cfg.max_stale_pct`
NoTrade(univ, ts_result) ==
    LET bad_count == Len(ts_result.stale_symbols)
                        + Len(ts_result.missing_symbols)
    IN univ /= <<>> /\ bad_count * 100 > MaxStalePct * Len(univ)

\* Step 0 with the staleness check applied to a given now_ts as well.
ResolveEvalTsAlwaysChecks ==
    /\ pc = "orch_start"
    /\ IF now_ts /= <<>>
          /\ ~NoTrade(universe, resolve_eval_ts(bars, universe,
                                                <<MaxStalenessDays>>))
       THEN /\ eval_ts' = now_ts
            /\ pc' = "filter"
            /\ UNCHANGED <<stale_exclusions, intent>>
       ELSE LET r == resolve_eval_ts(bars, universe, <<MaxStalenessDays>>)
            IN /\ eval_ts' = <<r.eval_ts>>
               /\ IF NoTrade(universe, r)
                  THEN /\ intent' = <<PortfolioIntent(r.eval_ts,
                                        UniverseResult(<<>>, <<>>), <<>>, <<>>,
                                        <<>>, FALSE)>>
                       /\ pc' = IF persist THEN "persist_intent"
                                ELSE "orch_return"
                       /\ UNCHANGED stale_exclusions
                  ELSE /\ stale_exclusions' =
                            MapSeq(r.stale_symbols, LAMBDA s :
                                SymbolExclusion(s, "data_too_stale",
                                                "Latest bar too old"))
                            \o MapSeq(r.missing_symbols, LAMBDA s :
                                SymbolExclusion(s, "data_too_stale",
                                                "No bars found"))
                       /\ pc' = "filter"
                       /\ UNCHANGED intent
    /\ UNCHANGED <<entry, k, now, strategies, max_workers, timeout_secs,
                   persist, task, waitStart, timedOut, returned, prefetched,
                   ctxUniverse, signals, errors, result, run_universe, db,
                   raised, universe, bars, now_ts, constraints,
                   universe_result, strategy_weights, merged, dropped, sizing,
                   targets>>
    /\ UNCHANGED dataVars

\* Step 0: eval_ts is now_ts when given; otherwise resolve_eval_ts, the
\* no-trade short-circuit, and the exclusions of stale and missing symbols.
ResolveEvalTs ==
    /\ pc = "orch_start"
    /\ IF now_ts /= <<>>
       THEN /\ eval_ts' = now_ts
            /\ pc' = "filter"
            /\ UNCHANGED <<stale_exclusions, intent>>
       ELSE LET r == resolve_eval_ts(bars, universe, <<MaxStalenessDays>>)
            IN /\ eval_ts' = <<r.eval_ts>>
               /\ IF NoTrade(universe, r)
                  THEN /\ intent' = <<PortfolioIntent(r.eval_ts,
                                        UniverseResult(<<>>, <<>>), <<>>, <<>>,
                                        <<>>, FALSE)>>
                       /\ pc' = IF persist THEN "persist_intent"
                                ELSE "orch_return"
                       /\ UNCHANGED stale_exclusions
                  ELSE /\ stale_exclusions' =
                            MapSeq(r.stale_symbols, LAMBDA s :
                                SymbolExclusion(s, "data_too_stale",
                                                "Latest bar too old"))
                            \o MapSeq(r.missing_symbols, LAMBDA s :
                                SymbolExclusion(s, "data_too_stale",
                                                "No bars found"))
                       /\ pc' = "filter"
                       /\ UNCHANGED intent
    /\ UNCHANGED <<entry, k, now, strategies, max_workers, timeout_secs,
                   persist, task, waitStart, timedOut, returned, prefetched,
                   ctxUniverse, signals, errors, result, run_universe, db,
                   raised, universe, bars, now_ts, constraints,
                   universe_result, strategy_weights, merged, dropped, sizing,
                   targets>>
    /\ UNCHANGED dataVars

\* The universe with the stale and missing symbols left in.
FreshUniverseKeepsStale == universe

\* `universe = [s for s in universe if s not in stale_set]`
FreshUniverse ==
    SelectSeq(universe, LAMBDA s :
        s \notin {stale_exclusions[i].symbol : i \in DOMAIN stale_exclusions})

\* The Constraints a cycle is called with.
ConstraintChoices ==
    IF entry = "orchestrate"
    THEN {Constraints({}, <<>>, <<>>, <<>>),
          Constraints({}, <<10>>, <<>>, <<1>>),
          Constraints({"AAA"}, <<>>, <<150>>, <<>>)}
    ELSE {Constraints({}, <<>>, <<>>, <<>>),
          Constraints({"AAA"}, <<10>>, <<150>>, <<>>),
          Constraints({}, <<10>>, <<150>>, <<1>>),
          Constraints({"BBB"}, <<>>, <<>>, <<1>>),
          Constraints({}, <<10>>, <<>>, <<2>>),
          Constraints({}, <<>>, <<150>>, <<1>>)}

\* Step 1: filter_universe at eval_ts, the stale exclusions put in front.
FilterUniverse ==
    /\ pc = "filter"
    /\ \E c \in ConstraintChoices :
         LET u == filter_universe(bars, FreshUniverse, c, eval_ts[1])
         IN /\ constraints' = <<c>>
            /\ universe_result' =
                 IF stale_exclusions /= <<>>
                 THEN UniverseResult(u.included, stale_exclusions \o u.excluded)
                 ELSE u
    /\ pc' = IF entry = "orchestrate" THEN "call_run" ELSE "done"
    /\ UNCHANGED <<entry, k, now, strategies, max_workers, timeout_secs,
                   persist, task, waitStart, timedOut, returned, prefetched,
                   ctxUniverse, signals, errors, result, run_universe, db,
                   raised, universe, bars, now_ts, eval_ts, stale_exclusions,
                   strategy_weights, merged, dropped, sizing, targets, intent>>
    /\ UNCHANGED dataVars

\* Step 2 handing run_strategies the universe as it was before filtering.
CallRunStrategiesUnfiltered ==
    /\ pc = "call_run"
    /\ run_universe' = FreshUniverse
    /\ pc' = "run_start"
    /\ UNCHANGED <<entry, k, now, strategies, max_workers, timeout_secs,
                   persist, task, waitStart, timedOut, returned, prefetched,
                   ctxUniverse, signals, errors, result, db, raised, universe,
                   bars, now_ts, constraints, eval_ts, stale_exclusions,
                   universe_result, strategy_weights, merged, dropped, sizing,
                   targets, intent>>
    /\ UNCHANGED dataVars

\* Step 2: run_strategies(strategies, filtered_universe, ..., persist).
CallRunStrategies ==
    /\ pc = "call_run"
    /\ run_universe' = universe_result.included
    /\ pc' = "run_start"
    /\ UNCHANGED <<entry, k, now, strategies, max_workers, timeout_secs,
                   persist, task, waitStart, timedOut, returned, prefetched,
                   ctxUniverse, signals, errors, result, db, raised, universe,
                   bars, now_ts, constraints, eval_ts, stale_exclusions,
                   universe_result, strategy_weights, merged, dropped, sizing,
                   targets, intent>>
    /\ UNCHANGED dataVars

\* run_strategies hands its RunResult back to the cycle.  Its pools are shut
\* down and its futures are gone: of a work item only whether it ran is kept.
RunReturnToCycle ==
    /\ pc = "run_return"
    /\ entry = "orchestrate"
    /\ pc' = "deconflict"
    /\ task' = [i \in DOMAIN task |-> [NewTask EXCEPT !.st = task[i].st]]
    /\ waitStart' = 0
    /\ now' = 0
    /\ k' = 1
    /\ UNCHANGED orchVars
    /\ UNCHANGED <<entry, strategies, max_workers, timeout_secs,
                   persist, timedOut, returned, prefetched,
                   ctxUniverse, signals, errors, result, run_universe, db,
                   raised>>
    /\ UNCHANGED dataVars

\* portfolio.equity, the two risk limits and the sizing method of a cycle.
\* portfolio.equity (whole dollars), the two risk limits (percent) and the
\* sizing method: two in a cycle; in a direct call of compute_targets also
\* the default limits, a position cap above the exposure cap, an account of
\* one dollar, an account without equity, and 100,000 dollars under the
\* default limits with equal weights.
SizingChoices ==
    IF entry = "orchestrate"
    THEN {Sizing(100, 40, 60, "signal_weighted"),
          Sizing(100, 5, 90, "equal_weight")}
    ELSE {Sizing(100, 40, 60, "signal_weighted"),
          Sizing(100, 25, 60, "signal_weighted"),
          Sizing(100, 5, 90, "signal_weighted"),
          Sizing(100, 50, 30, "signal_weighted"),
          Sizing(1, 50, 30, "signal_weighted"),
          Sizing(0, 5, 90, "signal_weighted"),
          Sizing(100, 40, 60, "equal_weight"),
          Sizing(100000, 5, 90, "equal_weight"),
          LongOnly(Sizing(100, 40, 60, "signal_weighted")),
          LongOnly(Sizing(100, 5, 90, "equal_weight")),
          LongOnly(Sizing(0, 5, 90, "signal_weighted"))}

\* Step 4: compute_targets(merged_signals, portfolio, risk_limits, method).
SizePositions ==
    /\ pc = "size"
    /\ \E a \in SizingChoices :
         /\ sizing' = <<a>>
         /\ targets' = compute_targets(merged, a)
    /\ pc' = IF entry = "orchestrate" THEN "assemble" ELSE "done"
    /\ UNCHANGED <<entry, k, now, strategies, max_workers, timeout_secs,
                   persist, task, waitStart, timedOut, returned, prefetched,
                   ctxUniverse, signals, errors, result, run_universe, db,
                   raised, universe, bars, now_ts, constraints, eval_ts,
                   stale_exclusions, universe_result, strategy_weights, merged,
                   dropped, intent>>
    /\ UNCHANGED dataVars

\* Step 5: the PortfolioIntent.
AssembleIntent ==
    /\ pc = "assemble"
    /\ intent' = <<PortfolioIntent(eval_ts[1], universe_result, merged,
                                   dropped, targets, TRUE)>>
    /\ pc' = IF persist THEN "persist_intent" ELSE "orch_return"
    /\ UNCHANGED <<entry, k, now, strategies, max_workers, timeout_secs,
                   persist, task, waitStart, timedOut, returned, prefetched,
                   ctxUniverse, signals, errors, result, run_universe, db,
                   raised, universe, bars, now_ts, constraints, eval_ts,
                   stale_exclusions, universe_result, strategy_weights, merged,
                   dropped, sizing, targets>>
    /\ UNCHANGED dataVars

\* `if persist: ensure_intent_schema(conn); write_intent(conn, intent)`,
\* outside any try: a write the store refuses leaves orchestrate as an
\* exception.
PersistIntent ==
    /\ pc = "persist_intent"
    /\ \E ok \in BOOLEAN :
         IF ok
         THEN /\ db' = write_intent(ensure_intent_schema(db), intent[1])
              /\ pc' = "orch_return"
              /\ raised' = raised
         ELSE /\ db' = db
              /\ pc' = "raised"
              /\ raised' = "OperationalError"
    /\ UNCHANGED orchVars
    /\ UNCHANGED <<entry, k, now, strategies, max_workers, timeout_secs,
                   persist, task, waitStart, timedOut, returned, prefetched,
                   ctxUniverse, signals, errors, result, run_universe>>
    /\ UNCHANGED dataVars

\* orchestrate returns the intent.
OrchReturn ==
    /\ pc = "orch_return"
    /\ pc' = "done"
    /\ UNCHANGED orchVars
    /\ UNCHANGED <<entry, k, now, strategies, max_workers, timeout_secs,
                   persist, task, waitStart, timedOut, returned, prefetched,
                   ctxUniverse, signals, errors, result, run_universe, db,
                   raised>>
    /\ UNCHANGED dataVars

CycleStrategies == <<"s1", "s2">>

RawUniverses == {<<"AAA", "BBB">>, <<"AAA", "BBB", "CCC">>}

\* The value of now_ts when the caller gives one.
GivenNowTs == 9

\* What the bars table may hold for a symbol: nothing, bars that stop early,
\* or bars up to the symbol's last close.  The closes and volumes differ
\* between the symbols; CCC's newest bar has no volume.
BarChoices(sym) ==
    IF sym = "AAA"
    THEN {<<>>, <<Bar(2, 50, <<100>>)>>,
          <<Bar(9, 50, <<100>>), Bar(10, 52, <<200>>)>>}
    ELSE IF sym = "BBB"
    THEN {<<>>, <<Bar(7, 20, <<300>>)>>, <<Bar(8, 20, <<300>>), Bar(9, 8, <<300>>)>>}
    ELSE IF sym = "CCC"
    THEN {<<>>, <<Bar(1, 5, <<50>>)>>, <<Bar(9, 5, <<50>>), Bar(10, 5, <<>>)>>}
    ELSE {<<>>}

\* A call of orchestrate.
Init ==
    /\ entry = "orchestrate"
    /\ pc = "orch_start"
    /\ k = 1
    /\ now = 0
    /\ strategies = CycleStrategies
    /\ max_workers \in {1, 2}
    /\ timeout_secs = TimeoutSecs
    /\ persist \in BOOLEAN
    /\ task = [i \in DOMAIN CycleStrategies |-> NewTask]
    /\ waitStart = 0
    /\ timedOut = {}
    /\ returned = [i \in DOMAIN CycleStrategies |-> <<>>]
    /\ prefetched = {}
    /\ ctxUniverse = [i \in DOMAIN CycleStrategies |-> <<>>]
    /\ signals = <<>>
    /\ errors = <<>>
    /\ result = <<>>
    /\ run_universe = <<>>
    /\ db = EmptyStore
    /\ raised = None
    /\ universe \in RawUniverses
    /\ bars \in {b \in [Range(SymbolOrder) -> UNION {BarChoices(s) : s \in Range(SymbolOrder)}] :
                    \A s \in Range(SymbolOrder) :
                        /\ b[s] \in BarChoices(s)
                        /\ s \notin Range(universe) => b[s] = <<>>}
    /\ now_ts \in {<<>>, <<GivenNowTs>>}
    /\ constraints = <<>>
    /\ eval_ts = <<>>
    /\ stale_exclusions = <<>>
    /\ universe_result = UniverseResult(<<>>, <<>>)
    /\ strategy_weights = <<>>
    /\ merged = <<>>
    /\ dropped = <<>>
    /\ sizing = <<>>
    /\ targets = <<>>
    /\ intent = <<>>
    /\ NoData

Next ==
    \/ ResolveEvalTs
    \/ FilterUniverse
    \/ CallRunStrategies
    \/ RunStart
    \/ Prefetch
    \/ BeginExecute
    \/ SeqCall
    \/ \E i \in DOMAIN task : StartTask(i)
    \/ \E i \in DOMAIN task : FinishTask(i)
    \/ SeqCollect
    \/ SeqTimeout
    \/ SeqJoin
    \/ SeqEnd
    \/ ParSubmit
    \/ ParCollect
    \/ ParTimeout
    \/ ParJoin
    \/ Aggregate
    \/ PersistRun
    \/ Tick
    \/ RunReturnToCycle
    \/ Deconflict
    \/ SizePositions
    \/ AssembleIntent
    \/ PersistIntent
    \/ OrchReturn

Spec == Init /\ [][Next]_vars

\* --------------------------------------------- compute_targets on its own

\* Most signals behind the merged signals of a direct call.
MaxSized == 3

SizingUniverse == <<"AAA", "BBB", "CCC">>

\* The signals whose merge a direct call of compute_targets sizes: longs and
\* shorts of large, small and very small weight on three symbols, a LONG of
\* negative strength, an exit, and a signal with alpha_net.
SizingPool ==
    {Signal("s1", "AAA", "long", 8, 5, FALSE, <<>>),
     Signal("s2", "AAA", "long", -8, 5, FALSE, <<>>),
     Signal("s1", "BBB", "short", -6, 5, FALSE, <<>>),
     Signal("s2", "BBB", "long", 1, 1, FALSE, <<>>),
     Signal("s3", "CCC", "long", 10, 10, FALSE, <<>>),
     Signal("s1", "CCC", "flat", -5, 8, FALSE, <<>>),
     Signal("s2", "CCC", "short", -2, 5, FALSE, <<-20>>)}

\* compute_targets is called with what deconflict_signals returned for some
\* signals.
InitSizing ==
    /\ entry = "compute_targets"
    /\ pc = "size"
    /\ k = 1
    /\ now = 0
    /\ strategies = StrategyIds
    /\ max_workers = 1
    /\ timeout_secs = NoLimit
    /\ persist = FALSE
    /\ task = [i \in DOMAIN StrategyIds |-> NewTask]
    /\ waitStart = 0
    /\ timedOut = {}
    /\ returned = [i \in DOMAIN StrategyIds |-> <<>>]
    /\ prefetched = {}
    /\ ctxUniverse = [i \in DOMAIN StrategyIds |-> <<>>]
    /\ signals \in SeqsUpTo(SizingPool, MaxSized)
    /\ errors = <<>>
    /\ result = <<>>
    /\ run_universe = <<>>
    /\ db = EmptyStore
    /\ raised = None
    /\ universe = <<>>
    /\ bars = NoBars
    /\ now_ts = <<>>
    /\ constraints = <<>>
    /\ eval_ts = <<>>
    /\ stale_exclusions = <<>>
    /\ universe_result = UniverseResult(SizingUniverse, <<>>)
    /\ strategy_weights = [x \in {} |-> 1]
    /\ merged = deconflict_signals(signals, SizingUniverse,
                                   strategy_weights).merged
    /\ dropped = deconflict_signals(signals, SizingUniverse,
                                    strategy_weights).dropped
    /\ sizing = <<>>
    /\ targets = <<>>
    /\ intent = <<>>
    /\ NoData

NextSizing == SizePositions

SpecSizing == InitSizing /\ [][NextSizing]_vars

\* --------------------------------------------- filter_universe on its own

\* The symbols lists of a direct call: unsorted, and one with a repeated
\* symbol.
FilterUniverses ==
    {<<"AAA", "BBB">>, <<"CCC", "AAA", "BBB">>, <<"BBB", "AAA", "BBB">>}

\* A direct call filter_universe(conn, symbols, constraints, as_of).
InitFilter ==
    /\ entry = "filter_universe"
    /\ pc = "filter"
    /\ k = 1
    /\ now = 0
    /\ strategies = StrategyIds
    /\ max_workers = 1
    /\ timeout_secs = NoLimit
    /\ persist = FALSE
    /\ task = [i \in DOMAIN StrategyIds |-> NewTask]
    /\ waitStart = 0
    /\ timedOut = {}
    /\ returned = [i \in DOMAIN StrategyIds |-> <<>>]
    /\ prefetched = {}
    /\ ctxUniverse = [i \in DOMAIN StrategyIds |-> <<>>]
    /\ signals = <<>>
    /\ errors = <<>>
    /\ result = <<>>
    /\ run_universe = <<>>
    /\ db = EmptyStore
    /\ raised = None
    /\ universe \in FilterUniverses
    /\ bars \in {b \in [Range(SymbolOrder) ->
                        UNION {BarChoices(s) : s \in Range(SymbolOrder)}] :
                    \A s \in Range(SymbolOrder) : b[s] \in BarChoices(s)}
    /\ now_ts = <<>>
    /\ constraints = <<>>
    /\ eval_ts \in {<<8>>, <<9>>, <<10>>}
    /\ stale_exclusions = <<>>
    /\ universe_result = UniverseResult(<<>>, <<>>)
    /\ strategy_weights = <<>>
    /\ merged = <<>>
    /\ dropped = <<>>
    /\ sizing = <<>>
    /\ targets = <<>>
    /\ intent = <<>>
    /\ NoData

NextFilter == FilterUniverse

SpecFilter == InitFilter /\ [][NextFilter]_vars

\* ================================================================ DataAccess
\* src/src/strategies/context.py over src/src/data/query.py, timeframe "1Day".
\* The accessor's as_of is eval_ts; the store is bars.

\* Largest lookback_bars of a read or a prefetch.
MaxLookback == 2

\* What run_strategies holds: untouched by a DataAccess.
runVars == <<entry, pc, k, now, strategies, max_workers, timeout_secs,
             persist, task, waitStart, timedOut, returned, prefetched,
             ctxUniverse, signals, errors, result, run_universe, db, raised>>

\* int(max(1.0, lookback_bars / 1) * 7 / 5 * 1.5) + 5 for "1Day"
_estimate_calendar_days(lookback_bars) ==
    ((Max(1, lookback_bars) * 21) \div 10) + 5

\* query.get_range: ts >= start_ts AND ts <= end_ts, ORDER BY symbol, ts.
get_range(store, symbols, start_ts, end_ts) ==
    Flatten(MapSeq(SelectSeq(SymbolOrder, LAMBDA s : s \in symbols),
                   LAMBDA s : SelectSeq(store[s],
                        LAMBDA b : b.ts >= start_ts /\ b.ts <= end_ts)))

\* query.get_latest with max_staleness = None: ORDER BY ts DESC LIMIT 1,
\* an option, <<>> where the code raises LookupError.
get_latest(store, symbol) ==
    IF store[symbol] = <<>> THEN <<>>
    ELSE <<store[symbol][Len(store[symbol])]>>

\* DataAccess.prefetch(symbols, "1Day", lookback_bars)
DataPrefetch ==
    /\ pc = "data"
    /\ \E symbols \in RawUniverses, lookback_bars \in 1..MaxLookback :
         LET start_ts == eval_ts[1] - _estimate_calendar_days(lookback_bars)
         IN /\ cache' = [s \in DOMAIN cache |->
                           IF s \in Range(symbols)
                           THEN <<get_range(bars, {s}, start_ts, eval_ts[1])>>
                           ELSE cache[s]]
            /\ call' = Call("prefetch", "", lookback_bars)
    /\ UNCHANGED <<read, runVars, orchVars>>

\* DataAccess.get_window(symbol, "1Day", lookback_bars)
DataGetWindow ==
    /\ pc = "data"
    /\ \E symbol \in DOMAIN cache, lookback_bars \in 1..MaxLookback :
         /\ read' = IF cache[symbol] /= <<>>
                    THEN LastN(cache[symbol][1], lookback_bars)
                    ELSE get_window(bars, symbol, eval_ts[1], lookback_bars)
         /\ call' = Call("get_window", symbol, lookback_bars)
    /\ UNCHANGED <<cache, runVars, orchVars>>

\* DataAccess.get_range(symbols, "1Day", start_ts)
DataGetRange ==
    /\ pc = "data"
    /\ \E symbols \in RawUniverses, start_ts \in {1, eval_ts[1]} :
         read' = get_range(bars, Range(symbols), start_ts, eval_ts[1])
    /\ call' = Call("get_range", "", 0)
    /\ UNCHANGED <<cache, runVars, orchVars>>

\* DataAccess.get_latest(symbol, "1Day"): from the cache `if cached:`, that
\* is when the symbol was prefetched and its list is not empty; otherwise
\* query.get_latest.  Where the code raises LookupError nothing is read.
DataGetLatest ==
    /\ pc = "data"
    /\ \E symbol \in DOMAIN cache :
         /\ read' = IF cache[symbol] /= <<>> /\ cache[symbol][1] /= <<>>
                    THEN LastN(cache[symbol][1], 1)
                    ELSE get_latest(bars, symbol)
         /\ call' = Call("get_latest", symbol, 0)
    /\ UNCHANGED <<cache, runVars, orchVars>>

\* DataAccess.get_universe_windows("1Day", lookback_bars)
DataGetUniverseWindows ==
    /\ pc = "data"
    /\ \E lookback_bars \in 1..MaxLookback :
         /\ read' = Flatten(MapSeq(
                       SelectSeq(SymbolOrder, LAMBDA s : cache[s] /= <<>>),
                       LAMBDA s : LastN(cache[s][1], lookback_bars)))
         /\ call' = Call("get_universe_windows", "", lookback_bars)
    /\ UNCHANGED <<cache, runVars, orchVars>>

\* DataAccess(conn, as_of) over a store that holds bars up to, and for some
\* symbols beyond, as_of.
InitData ==
    /\ entry = "DataAccess"
    /\ pc = "data"
    /\ k = 1
    /\ now = 0
    /\ strategies = StrategyIds
    /\ max_workers = 1
    /\ timeout_secs = NoLimit
    /\ persist = FALSE
    /\ task = [i \in DOMAIN StrategyIds |-> NewTask]
    /\ waitStart = 0
    /\ timedOut = {}
    /\ returned = [i \in DOMAIN StrategyIds |-> <<>>]
    /\ prefetched = {}
    /\ ctxUniverse = [i \in DOMAIN StrategyIds |-> <<>>]
    /\ signals = <<>>
    /\ errors = <<>>
    /\ result = <<>>
    /\ run_universe = <<>>
    /\ db = EmptyStore
    /\ raised = None
    /\ universe = <<"AAA", "BBB", "CCC">>
    /\ bars \in {b \in [Range(SymbolOrder) ->
                        UNION {BarChoices(s) : s \in Range(SymbolOrder)}] :
                    \A s \in Range(SymbolOrder) : b[s] \in BarChoices(s)}
    /\ now_ts = <<>>
    /\ constraints = <<>>
    /\ eval_ts \in {<<8>>, <<9>>}
    /\ stale_exclusions = <<>>
    /\ universe_result = UniverseResult(<<>>, <<>>)
    /\ strategy_weights = <<>>
    /\ merged = <<>>
    /\ dropped = <<>>
    /\ sizing = <<>>
    /\ targets = <<>>
    /\ intent = <<>>
    /\ NoData

NextData ==
    \/ DataPrefetch
    \/ DataGetWindow
    \/ DataGetRange
    \/ DataGetLatest
    \/ DataGetUniverseWindows

SpecData == InitData /\ [][NextData]_vars

\* ========================================================== the claims

Res == result[1]

Count(x, s) == Cardinality({j \in DOMAIN s : s[j] = x})

SameBag(s, t) == \A x \in Range(s) \cup Range(t) : Count(x, s) = Count(x, t)

ErrorsOf(i) == SelectSeq(Res.errors, LAMBDA e : e.strategy_id = Sid(i))

SignalsOf(i) == SelectSeq(Res.signals, LAMBDA x : x.strategy_id = Sid(i))

\* In a RunResult every strategy has exactly one of two outcomes: all the
\* signals it returned are in RunResult.signals and it has no error record,
\* or it has exactly one error record (id, version, kind, message) and no
\* signal of its return value is in RunResult.signals; and run_strategies
\* raises nothing once a decision function has been invoked.
IsolatedOutcomes ==
    /\ Invoked /= {} => raised = None
    /\ result /= <<>> =>
         /\ \A x \in Range(Res.signals) : x.strategy_id \in Range(strategies)
         /\ \A i \in 1..N :
              \/ /\ ErrorsOf(i) = <<>>
                 /\ returned[i] /= <<>>
                 /\ returned[i][1].kind = "value"
                 /\ SameBag(SignalsOf(i), returned[i][1].items)
              \/ /\ Len(ErrorsOf(i)) = 1
                 /\ ErrorsOf(i)[1].version = Version(Sid(i))
                 /\ ErrorsOf(i)[1].error_type /= ""
                 /\ ErrorsOf(i)[1].error_message /= ""
                 /\ SignalsOf(i) = <<>>
                 /\ returned[i] /= <<>> => returned[i][1].kind = "exc"

\* C1: whatever a decision function does (raises, times out, returns a
\* non-list, a non-Signal element or a signal of another strategy),
\* run_strategies returns normally, and in the RunResult it returns every
\* strategy has exactly one of the two outcomes.  A timeout is set, so a
\* decision function that never finishes is one that times out.
C1_ErrorIsolation ==
    /\ []IsolatedOutcomes
    /\ (Invoked /= {} /\ timeout_secs /= NoLimit)
          ~> (pc = "done" /\ result /= <<>>)

\* A RunResult in which one strategy failed validation, one timed out and
\* one delivered signals.
MixedOutcomes ==
    /\ result /= <<>>
    /\ \E i, j, l \in 1..N :
         /\ Len(ErrorsOf(i)) = 1 /\ ErrorsOf(i)[1].error_type = "StrategyError"
         /\ Len(ErrorsOf(j)) = 1 /\ ErrorsOf(j)[1].error_type = "TimeoutError"
         /\ SignalsOf(l) /= <<>>

\* The calling thread is waiting for a call it has already timed out: in the
\* exit of a with block (shutdown(wait=True)) whose pool still runs it.
AwaitingTimedOut ==
    \/ pc = "seq_join" /\ k \in timedOut /\ task[k].st /= "done"
    \/ pc = "par_join" /\ \E i \in timedOut : task[i].st /= "done"

\* C2: a call that timed out is never awaited further: the runner records
\* the timeout and moves on without waiting for the decision function to
\* finish, in sequential and in parallel mode.
C2_TimedOutNeverAwaited == ~AwaitingTimedOut

\* The decision function of strategy i ran, or is running, longer than the
\* budget.
Overran(i) ==
    /\ i \in Invoked
    /\ task[i].dur = Hang \/ task[i].dur > timeout_secs

\* C3: with a timeout set, every strategy whose decision function runs
\* longer than strategy_timeout_secs has a TimeoutError record in the
\* RunResult and contributes no signals, in sequential and in parallel mode
\* and wherever it sits in the list.
C3_OverrunIsTimeout ==
    (result /= <<>> /\ timeout_secs /= NoLimit) =>
        \A i \in 1..N :
            Overran(i) =>
                /\ Len(ErrorsOf(i)) = 1
                /\ ErrorsOf(i)[1].error_type = "TimeoutError"
                /\ SignalsOf(i) = <<>>

\* Strategy i has been dealt with: its result or its error is recorded.
Settled(i) ==
    \/ returned[i] /= <<>>
    \/ \E j \in DOMAIN errors : errors[j] = TimeoutRecord(Sid(i))

\* C4: with max_workers = 1 and a timeout, a strategy that does not return
\* within the budget gets its TimeoutError record, and every strategy after
\* it in the list is still executed and dealt with.
C4_SequentialTimeoutEnforced ==
    \A i \in DOMAIN StrategyIds :
        (max_workers = 1 /\ i \in timedOut)
            ~> (/\ \E j \in DOMAIN errors : errors[j] = TimeoutRecord(Sid(i))
                /\ \A j \in (i + 1)..N : j \in Invoked /\ Settled(j))

\* The signals of the strategies that delivered, in the order of the
\* strategies list and, within a strategy, of its returned list.
RECURSIVE Delivered(_)
Delivered(i) ==
    IF i > N THEN <<>>
    ELSE (IF returned[i] /= <<>> /\ returned[i][1].kind = "value"
          THEN returned[i][1].items ELSE <<>>) \o Delivered(i + 1)

StrategyIndex(sid) == CHOOSE i \in DOMAIN strategies : strategies[i] = sid

\* a and b are equal on |strength|, confidence and symbol.
SameKey(a, b) ==
    /\ Abs(a.strength) = Abs(b.strength)
    /\ a.confidence = b.confidence
    /\ a.symbol = b.symbol

\* a may stand before b: descending |strength|, then descending confidence,
\* then ascending symbol.
InOrder(a, b) ==
    \/ Abs(a.strength) > Abs(b.strength)
    \/ /\ Abs(a.strength) = Abs(b.strength)
       /\ a.confidence > b.confidence
    \/ /\ Abs(a.strength) = Abs(b.strength)
       /\ a.confidence = b.confidence
       /\ SymRank(a.symbol) <= SymRank(b.symbol)

\* C8: RunResult.signals is fixed by the strategies list and what each
\* strategy returned, whatever the scheduling and max_workers: the delivered
\* signals ordered by descending |strength|, descending confidence, ascending
\* symbol, signals equal on all three in the order of the strategies list.
C8_SignalsDeterministic ==
    result /= <<>> =>
        /\ SameBag(Res.signals, Delivered(1))
        /\ \A a, b \in DOMAIN Res.signals :
             a < b =>
                /\ InOrder(Res.signals[a], Res.signals[b])
                /\ SameKey(Res.signals[a], Res.signals[b]) =>
                     StrategyIndex(Res.signals[a].strategy_id)
                        <= StrategyIndex(Res.signals[b].strategy_id)

\* C8's case: the pool ran, a later strategy's future was done before an
\* earlier one's, and their signals tie on every key or differ on one.
C8_Witness ==
    /\ result /= <<>>
    /\ ~Sequential
    /\ \E a, b \in DOMAIN Res.signals :
         /\ a < b
         /\ SameKey(Res.signals[a], Res.signals[b])
         /\ Res.signals[a].strategy_id /= Res.signals[b].strategy_id
    /\ \E i, j \in 1..N :
         /\ i < j
         /\ returned[i] /= <<>> /\ returned[j] /= <<>>
         /\ task[j].start + task[j].dur < task[i].start + task[i].dur
    /\ \E a, b \in DOMAIN Res.signals :
         Abs(Res.signals[a].strength) > Abs(Res.signals[b].strength)

\* ------------------------------------------------ claims on deconfliction

\* deconflict_signals has returned from a direct call.
DeconflictDone == entry = "deconflict_signals" /\ pc = "done"

InputsFor(sym) == SelectSeq(signals, LAMBDA s : s.symbol = sym)

DroppedFor(sym) == SelectSeq(dropped, LAMBDA d : d.symbol = sym)

MergedFor(sym) == SelectSeq(merged, LAMBDA m : m.symbol = sym)

\* The dropped-list entry of an input signal, whatever its reason.
AsDropped(s) == [strategy_id |-> s.strategy_id, symbol |-> s.symbol,
                 side |-> s.side, strength |-> s.strength,
                 confidence |-> s.confidence]

Identity(d) == [strategy_id |-> d.strategy_id, symbol |-> d.symbol,
                side |-> d.side, strength |-> d.strength,
                confidence |-> d.confidence]

\* C9: for a symbol of the universe, if any input signal for it carries a
\* veto tag, then no merged signal is produced for the symbol and every
\* input signal for it is in the dropped list, whatever the strengths,
\* confidences and alpha_net of the signals.
C9_VetoDominance ==
    DeconflictDone =>
        \A sym \in Range(universe_result.included) :
            (\E i \in DOMAIN signals :
                signals[i].symbol = sym /\ signals[i].veto)
            => /\ MergedFor(sym) = <<>>
               /\ SameBag(MapSeq(InputsFor(sym), AsDropped),
                          MapSeq(DroppedFor(sym), Identity))

ExitInputs(sym) == SelectSeq(InputsFor(sym), IsExit)

DirectionalInputs(sym) == SelectSeq(InputsFor(sym), LAMBDA s : ~IsExit(s))

\* |strength| * confidence * weight, or |alpha_net|, written out.
VoteWeight(s) ==
    IF s.alpha_net /= <<>> THEN Abs(s.alpha_net[1])
    ELSE Abs(s.strength) * s.confidence
            * (IF s.strategy_id \in DOMAIN strategy_weights
               THEN strategy_weights[s.strategy_id] ELSE 1)

\* The symbol reaches the contest with every input signal: none is
\* veto-tagged and none is removed beforehand for zero strength or zero
\* alpha_net.
Contested(sym) ==
    /\ sym \in Range(universe_result.included)
    /\ ExitInputs(sym) /= <<>>
    /\ DirectionalInputs(sym) /= <<>>
    /\ \A i \in DOMAIN signals :
         signals[i].symbol = sym =>
            /\ ~signals[i].veto
            /\ signals[i].strength /= 0
            /\ signals[i].alpha_net /= <<0>>

\* C10: when a symbol has both exits (FLAT, strength < 0) and directional
\* signals and the summed effective weights of the two groups are equal,
\* the merged signal of the symbol is FLAT and every directional signal is
\* dropped with reason "conflicting sides".
C10_TieGoesToExit ==
    DeconflictDone =>
        \A sym \in Range(universe_result.included) :
            (/\ Contested(sym)
             /\ SumOver(ExitInputs(sym), VoteWeight)
                    = SumOver(DirectionalInputs(sym), VoteWeight))
            => /\ Len(MergedFor(sym)) = 1
               /\ MergedFor(sym)[1].side = "flat"
               /\ \A i \in DOMAIN DirectionalInputs(sym) :
                    \E j \in DOMAIN dropped :
                        /\ Identity(dropped[j])
                              = AsDropped(DirectionalInputs(sym)[i])
                        /\ dropped[j].reason = "conflicting sides"
               /\ \A j \in DOMAIN dropped :
                    dropped[j].symbol = sym => ~IsExit(dropped[j])

\* C10's case: a tie of non-zero weight between one exit and two
\* directional signals has been decided.
C10_Witness ==
    /\ DeconflictDone
    /\ \E sym \in Range(universe_result.included) :
         /\ Contested(sym)
         /\ Len(DirectionalInputs(sym)) = 2
         /\ SumOver(ExitInputs(sym), VoteWeight) > 0
         /\ SumOver(ExitInputs(sym), VoteWeight)
                = SumOver(DirectionalInputs(sym), VoteWeight)
         /\ Len(MergedFor(sym)) = 1

\* ------------------------------------------------------ claims on the cycle

\* The symbols of the raw universe without a bar: missing.
MissingSymbols == {s \in Range(universe) : bars[s] = <<>>}

NewestBar(s) == bars[s][Len(bars[s])].ts

\* The symbols whose newest bar lies more than the staleness limit behind
\* the newest bar of the whole universe: stale.
StaleSymbols ==
    {s \in Range(universe) \ MissingSymbols :
        \E t \in Range(universe) \ MissingSymbols :
            NewestBar(t) - NewestBar(s) > MaxStalenessDays}

\* orchestrate resolves eval_ts itself and the stale or missing fraction of
\* the universe exceeds max_stale_pct.
TooManyStale ==
    /\ entry = "orchestrate"
    /\ now_ts = <<>>
    /\ universe /= <<>>
    /\ 100 * Cardinality(MissingSymbols \cup StaleSymbols)
          > MaxStalePct * Len(universe)

\* C5: when orchestrate resolves eval_ts itself and the fraction of universe
\* symbols that are stale or missing exceeds max_stale_pct, the intent it
\* returns has trade_allowed = false and no targets, and no strategy's
\* prefetch or decision function is invoked during the call.
C5_NoTradeShortCircuit ==
    TooManyStale =>
        /\ prefetched = {}
        /\ Invoked = {}
        /\ pc \in {"orch_start", "persist_intent", "orch_return", "done",
                   "raised"}
        /\ pc \in {"orch_return", "done"} =>
              /\ intent /= <<>>
              /\ intent[1].trade_allowed = FALSE
              /\ intent[1].targets = <<>>

\* C5's case: the universe has three symbols, two of them have no bars, one
\* is fresh, and orchestrate has returned its intent.
C5_Witness ==
    /\ TooManyStale
    /\ Len(universe) = 3
    /\ Cardinality(MissingSymbols) = 2
    /\ StaleSymbols = {}
    /\ pc = "done"
    /\ intent /= <<>>

\* C6: with persistence enabled, no write reaches the store before the
\* PortfolioIntent is assembled: while there is no intent the store holds
\* no strategy-run record, no signals and no intent.
C6_NoWriteBeforeIntent ==
    (entry = "orchestrate" /\ persist /\ intent = <<>>) => db = EmptyStore

\* C7: orchestrate either returns a complete PortfolioIntent or raises
\* before any decision function has been invoked: no exception leaves it
\* once a strategy has run.
C7_CompleteOrEarlyRaise ==
    entry = "orchestrate" =>
        /\ raised /= None => Invoked = {}
        /\ pc = "done" => intent /= <<>>

\* ------------------------------------------------------ claims on sizing

\* compute_targets has returned from a direct call.
SizingDone == entry = "compute_targets" /\ pc = "done"

\* |target_notional| of the targets, in cents.
AbsNotionals == MapSeq(targets, LAMBDA t : Abs(t.target_notional))

\* equity * max_portfolio_exposure_pct and equity * max_position_pct, cents.
ExposureCap == sizing[1].equity * sizing[1].max_portfolio_exposure_pct

PositionCap == sizing[1].equity * sizing[1].max_position_pct

\* C11: signal-weighted sizing with positive equity: the sum of
\* |target_notional| over the targets is at most equity *
\* max_portfolio_exposure_pct, up to half a cent of rounding per target, and
\* every |target_notional| is at most equity * max_position_pct, whatever
\* the merged signals and also after capped excess was redistributed.
C11_Conservation ==
    (SizingDone /\ sizing[1].method = "signal_weighted"
        /\ sizing[1].equity > 0)
    => /\ 2 * SeqSum(AbsNotionals) <= 2 * ExposureCap + Len(targets)
       /\ \A i \in DOMAIN targets : AbsNotionals[i] <= PositionCap

\* What the first pass of signal-weighted sizing gives merged signal i
\* before the cap: its share of the exposure cap.
FirstPass(i) ==
    RMul(RDiv(RawWeight(merged[i]), RSum(MapSeq(merged, RawWeight))),
         Rat(ExposureCap, 1))

\* C11's case: two or more directional merged signals, one above the
\* position cap in the first pass and one below it, which the redistributed
\* excess carries up to the cap.
C11_Witness ==
    /\ SizingDone
    /\ sizing[1].method = "signal_weighted"
    /\ sizing[1].equity > 0
    /\ Len(merged) >= 2
    /\ \A i \in DOMAIN merged : merged[i].side /= "flat"
    /\ \E i, j \in DOMAIN merged :
         /\ RLt(Rat(PositionCap, 1), FirstPass(i))
         /\ RLt(FirstPass(j), Rat(PositionCap, 1))
         /\ \E t \in DOMAIN targets :
              /\ targets[t].symbol = merged[j].symbol
              /\ AbsNotionals[t] = PositionCap

\* The decision for a symbol: the merged signal deconfliction produced for
\* it, as an option.
DecisionFor(sym) == SelectSeq(merged, LAMBDA m : m.symbol = sym)

\* C12: close and hold stay apart end to end: a target with notional
\* exactly 0 is emitted for a symbol only when the decision for the symbol
\* is an exit (a FLAT merge), a symbol with a long or short decision never
\* gets a zero-notional target, and a symbol without a decision gets no
\* target at all.
C12_CloseHoldPreserved ==
    SizingDone =>
        \A i \in DOMAIN targets :
            /\ DecisionFor(targets[i].symbol) /= <<>>
            /\ targets[i].target_notional = 0
                  => DecisionFor(targets[i].symbol)[1].side = "flat"

\* C13: every merged signal with side FLAT passed to compute_targets yields
\* a target for its symbol with target_notional exactly 0, whatever the
\* sizing method, the risk limits and the portfolio state.
C13_ExitPassthrough ==
    SizingDone =>
        \A i \in DOMAIN merged :
            merged[i].side = "flat" =>
                \E t \in DOMAIN targets :
                    /\ targets[t].symbol = merged[i].symbol
                    /\ targets[t].target_notional = 0

\* ---------------------------------------------------- claims on DataAccess

\* C14: no DataAccess read (get_window, get_range, get_latest,
\* get_universe_windows), from the prefetch cache or from the store on a
\* cache miss, returns a bar whose timestamp is later than the accessor's
\* as_of.
C14_NoLookAhead ==
    entry = "DataAccess" =>
        \A i \in DOMAIN read : read[i].ts <= eval_ts[1]

\* ------------------------------------------- claims on the cycle's stages

\* orchestrate is past sizing.
PastSizing == pc \in {"assemble", "persist_intent", "orch_return", "done",
                      "raised"}

\* C15: in orchestrate the universe is filtered before any strategy is
\* prefetched or invoked, the universe in every strategy's context is
\* exactly intent.universe.included, and deconfliction, sizing and the
\* assembly of the intent follow in that order, each after the stage before
\* it has finished: no decision function runs once deconfliction has
\* produced anything, targets exist only past sizing, and the intent holds
\* what the stages produced.
C15_StagesInOrder ==
    entry = "orchestrate" =>
        /\ (prefetched /= {} \/ Invoked /= {}) => constraints /= <<>>
        /\ \A i \in prefetched : ctxUniverse[i] = universe_result.included
        /\ (merged /= <<>> \/ dropped /= <<>>) =>
              /\ result /= <<>>
              /\ \A i \in DOMAIN task : task[i].st /= "running"
        /\ sizing /= <<>> => (result /= <<>> /\ PastSizing)
        /\ (intent /= <<>> /\ intent[1].trade_allowed) =>
              /\ sizing /= <<>>
              /\ intent[1].universe = universe_result
              /\ intent[1].signals_used = merged
              /\ intent[1].signals_dropped = dropped
              /\ intent[1].targets = targets
              /\ \A i \in DOMAIN ctxUniverse :
                    ctxUniverse[i] = intent[1].universe.included

\* C15's case: a cycle that came through every stage: the filter excluded
\* a symbol, strategies ran in the pool, a signal was dropped, a target was
\* sized, the intent was returned.
C15_Witness ==
    /\ entry = "orchestrate"
    /\ pc = "done"
    /\ intent /= <<>>
    /\ intent[1].trade_allowed
    /\ intent[1].universe.excluded /= <<>>
    /\ intent[1].universe.included /= <<>>
    /\ ~Sequential
    /\ Invoked /= {}
    /\ dropped /= <<>>
    /\ targets /= <<>>

\* orchestrate resolved eval_ts itself, did not short-circuit, and has
\* filtered the universe.
ResolvedAndFiltered ==
    /\ entry = "orchestrate"
    /\ now_ts = <<>>
    /\ ~TooManyStale
    /\ constraints /= <<>>

\* Symbol s is excluded for data staleness in u and is not included in u.
ExcludedAsStale(s, u) ==
    /\ \E i \in DOMAIN u.excluded :
          u.excluded[i].symbol = s /\ u.excluded[i].reason = "data_too_stale"
    /\ s \notin Range(u.included)

\* C16: when orchestrate resolves eval_ts itself and does not short-circuit,
\* every stale or missing symbol is in intent.universe.excluded with the
\* data-staleness reason, is not in intent.universe.included, and is not in
\* the universe handed to any strategy.
C16_StaleExcluded ==
    ResolvedAndFiltered =>
        \A s \in MissingSymbols \cup StaleSymbols :
            /\ ExcludedAsStale(s, universe_result)
            /\ intent /= <<>> => ExcludedAsStale(s, intent[1].universe)
            /\ s \notin Range(run_universe)
            /\ \A i \in prefetched : s \notin Range(ctxUniverse[i])

\* C16's case: a returned, trade-allowed intent of a cycle that resolved
\* eval_ts itself, with a stale symbol and strategies that were invoked.
C16_Witness ==
    /\ ResolvedAndFiltered
    /\ pc = "done"
    /\ intent /= <<>>
    /\ intent[1].trade_allowed
    /\ MissingSymbols \cup StaleSymbols /= {}
    /\ Invoked /= {}
    /\ intent[1].universe.included /= <<>>

\* ------------------------------------------ claims on the directional vote

\* The signed vote of a signal, written out: alpha_net when it is set, else
\* |strength| * confidence * weight, negative for a SHORT.
SignedVote(s) ==
    IF s.alpha_net /= <<>> THEN s.alpha_net[1]
    ELSE IF s.side = "short" THEN 0 - VoteWeight(s) ELSE VoteWeight(s)

NetVote(sym) == SumOver(DirectionalInputs(sym), SignedVote)

\* The directional signals of the symbol are put to the vote, all of them:
\* the symbol is in the universe, no signal of it is veto-tagged or removed
\* beforehand for zero strength or zero alpha_net, and its exits, if any,
\* weigh less than its directional signals.
ReachesVote(sym) ==
    /\ sym \in Range(universe_result.included)
    /\ DirectionalInputs(sym) /= <<>>
    /\ \A i \in DOMAIN signals :
         signals[i].symbol = sym =>
            /\ ~signals[i].veto
            /\ signals[i].strength /= 0
            /\ signals[i].alpha_net /= <<0>>
    /\ SumOver(ExitInputs(sym), VoteWeight)
          < SumOver(DirectionalInputs(sym), VoteWeight)

\* Every signal of sigs has its own record in the dropped list.
AllDropped(sigs) ==
    \A x \in Range(MapSeq(sigs, AsDropped)) :
        Count(x, MapSeq(dropped, Identity)) >= Count(x, MapSeq(sigs, AsDropped))

\* C17: when the directional signals of a symbol have a net signed vote of
\* exactly zero, no merged signal is produced for the symbol and every one
\* of those directional signals is recorded as dropped.
C17_ZeroVoteDropsAll ==
    DeconflictDone =>
        \A sym \in Range(universe_result.included) :
            (ReachesVote(sym) /\ NetVote(sym) = 0)
            => /\ MergedFor(sym) = <<>>
               /\ AllDropped(DirectionalInputs(sym))

\* C17's case: a LONG and a SHORT of equal, non-zero vote have cancelled.
C17_Witness ==
    /\ DeconflictDone
    /\ \E sym \in Range(universe_result.included) :
         /\ ReachesVote(sym)
         /\ NetVote(sym) = 0
         /\ \E i, j \in DOMAIN DirectionalInputs(sym) :
              /\ DirectionalInputs(sym)[i].side = "long"
              /\ DirectionalInputs(sym)[j].side = "short"
              /\ SignedVote(DirectionalInputs(sym)[i]) > 0
         /\ \E j \in DOMAIN dropped :
              dropped[j].symbol = sym /\ dropped[j].reason = "conflicting sides"

\* The side the code counts a directional signal on: SHORT is short, LONG
\* and a FLAT of positive strength are long.
SideOf(s) == IF s.side = "short" THEN "short" ELSE "long"

ConsensusSide(sym) == IF NetVote(sym) > 0 THEN "long" ELSE "short"

OnConsensusSide(sym) ==
    SelectSeq(DirectionalInputs(sym), LAMBDA s : SideOf(s) = ConsensusSide(sym))

OffConsensusSide(sym) ==
    SelectSeq(DirectionalInputs(sym), LAMBDA s : SideOf(s) /= ConsensusSide(sym))

\* A contribution of a merged signal as the signal it came from.
ContributionOf(sym, c) ==
    [strategy_id |-> c.strategy_id, symbol |-> sym, side |-> c.side,
     strength |-> c.strength, confidence |-> c.confidence]

\* C18: when the directional signals of a symbol have a non-zero net vote,
\* exactly one merged signal is produced for the symbol, its side is the
\* side of the sign of the net vote, its contributors are exactly the
\* signals on that side, and every signal of the opposite side is dropped
\* with reason "conflicting sides".
C18_NetVoteDecides ==
    DeconflictDone =>
        \A sym \in Range(universe_result.included) :
            (ReachesVote(sym) /\ NetVote(sym) /= 0)
            => /\ Len(MergedFor(sym)) = 1
               /\ MergedFor(sym)[1].side = ConsensusSide(sym)
               /\ MapSeq(MergedFor(sym)[1].contributions,
                         LAMBDA c : ContributionOf(sym, c))
                     = MapSeq(OnConsensusSide(sym), AsDropped)
               /\ \A i \in DOMAIN OffConsensusSide(sym) :
                    \E j \in DOMAIN dropped :
                        /\ Identity(dropped[j])
                              = AsDropped(OffConsensusSide(sym)[i])
                        /\ dropped[j].reason = "conflicting sides"

\* ------------------------------------------- claims on equal-weight sizing

\* Scenario C: equal-weight sizing of two directional merged signals with
\* equity 100,000, position cap 0.05 and exposure cap 0.90.
ScenarioC ==
    /\ SizingDone
    /\ sizing[1] = Sizing(100000, 5, 90, "equal_weight")
    /\ Len(merged) = 2
    /\ \A i \in DOMAIN merged : merged[i].side /= "flat"

\* C20 as stated: in scenario C compute_targets returns two targets, each
\* with |notional| approximately 4,500 (here: within one percent of it) and
\* each at most 5,000.  Notionals are in cents.
C20_ScenarioC ==
    ScenarioC =>
        /\ Len(targets) = 2
        /\ \A i \in DOMAIN targets :
             /\ 100 * Abs(AbsNotionals[i] - 450000) <= 450000
             /\ AbsNotionals[i] <= 500000

\* C20 amended: in scenario C compute_targets returns two targets, each with
\* |notional| exactly 5,000, the position cap: the even split of the
\* deployable 90,000 is 45,000 each, which the cap of 5,000 cuts.
C20_ScenarioCAtCap ==
    ScenarioC =>
        /\ Len(targets) = 2
        /\ \A i \in DOMAIN targets :
             /\ AbsNotionals[i] = PositionCap
             /\ AbsNotionals[i] = 500000
        /\ ExposureCap = 2 * 4500000

\* C20's case: scenario C sized, with a long and a short target.
C20_Witness ==
    /\ ScenarioC
    /\ Len(targets) = 2
    /\ \E i, j \in DOMAIN targets :
         targets[i].target_notional > 0 /\ targets[j].target_notional < 0

\* --------------------------------------------- claims on resolve_eval_ts

\* What resolve_eval_ts returns for the cycle's universe and bars.
Resolved == resolve_eval_ts(bars, universe, <<MaxStalenessDays>>)

\* orchestrate has resolved eval_ts itself.
SelfResolved ==
    /\ entry = "orchestrate"
    /\ now_ts = <<>>
    /\ eval_ts /= <<>>

\* C21: resolve_eval_ts returns eval_ts equal to the minimum latest-bar
\* timestamp over the symbols it classifies as fresh, so eval_ts is never
\* later than the latest bar of any fresh symbol.
C21_EvalTsIsMinOfFresh ==
    (SelfResolved /\ Resolved.fresh_symbols /= <<>>) =>
        /\ eval_ts[1] = Resolved.eval_ts
        /\ \E s \in Range(Resolved.fresh_symbols) : eval_ts[1] = NewestBar(s)
        /\ \A s \in Range(Resolved.fresh_symbols) : eval_ts[1] <= NewestBar(s)
        /\ Range(Resolved.fresh_symbols)
              = Range(universe) \ (MissingSymbols \cup StaleSymbols)

\* C21's case: eval_ts resolved over fresh symbols whose latest bars differ,
\* beside a stale symbol.
C21_Witness ==
    /\ SelfResolved
    /\ \E s, t \in Range(Resolved.fresh_symbols) : NewestBar(s) < NewestBar(t)
    /\ Resolved.stale_symbols /= <<>>

\* --------------------------------------------- claims on filter_universe

FilterDone == entry = "filter_universe" /\ pc = "done"

\* The bars of the symbol at or before as_of: the window of the checks.
WindowAt(sym) == SelectSeq(bars[sym], LAMBDA b : b.ts <= eval_ts[1])

VolumesAt(sym) == SelectSeq(WindowAt(sym), LAMBDA b : b.volume /= <<>>)

\* The four checks of the loop, each on its own.
ManuallyExcluded(sym) == sym \in constraints[1].exclude_symbols

InsufficientData(sym) == WindowAt(sym) = <<>>

BelowMinPrice(sym) ==
    /\ constraints[1].min_price /= <<>>
    /\ WindowAt(sym) /= <<>>
    /\ WindowAt(sym)[Len(WindowAt(sym))].close < constraints[1].min_price[1]

BelowMinVolume(sym) ==
    /\ constraints[1].min_avg_volume /= <<>>
    /\ SumOver(VolumesAt(sym), LAMBDA b : b.volume[1])
          < constraints[1].min_avg_volume[1] * Max(1, Len(VolumesAt(sym)))

\* The reason of the first failing check in the fixed order; a symbol that
\* passes the four checks can only fall to the cap on names.
FirstFailing(sym) ==
    IF ManuallyExcluded(sym) THEN "manually_excluded"
    ELSE IF InsufficientData(sym) THEN "insufficient_data"
    ELSE IF BelowMinPrice(sym) THEN "below_min_price"
    ELSE IF BelowMinVolume(sym) THEN "below_min_volume"
    ELSE "max_names_exceeded"

PassesChecks(sym) ==
    ~(ManuallyExcluded(sym) \/ InsufficientData(sym) \/ BelowMinPrice(sym)
        \/ BelowMinVolume(sym))

ReasonsOf(sym) ==
    {universe_result.excluded[i].reason :
        i \in {j \in DOMAIN universe_result.excluded :
                    universe_result.excluded[j].symbol = sym}}

TargetsWithShorts ==
    compute_targets(merged, [sizing[1] EXCEPT !.long_only = FALSE])

HasTarget(tgts, sym) == \E i \in DOMAIN tgts : tgts[i].symbol = sym

C24_TimeoutIsOwnFault ==
    (entry = "run_strategies" /\ ~Sequential) =>
        \A i \in timedOut :
            /\ i \in Invoked
            /\ task[i].dur = Hang \/ task[i].dur > timeout_secs

\* ------------------------------------------- claims on the accounting

\* The contributions of all merged signals, each as the signal it came from.
AllContributions ==
    Flatten(MapSeq(merged, LAMBDA m :
        MapSeq(m.contributions, LAMBDA c : ContributionOf(m.symbol, c))))

\* C25: deconflict_signals accounts for every input signal exactly once:
\* each is a contributor of one merged signal or has one drop record, never
\* both and never neither, so the drop records and the contributors together
\* are the input signals, and their numbers add up to the number of inputs.
C25_EverySignalAccounted ==
    DeconflictDone =>
        /\ Len(dropped) + Len(AllContributions) = Len(signals)
        /\ SameBag(MapSeq(signals, AsDropped),
                   MapSeq(dropped, Identity) \o AllContributions)

\* C25's case: three signals of one symbol, of which one was dropped in the
\* vote and two contribute to the merged signal.
C25_Witness ==
    /\ DeconflictDone
    /\ Len(signals) = 3
    /\ Len(merged) = 1
    /\ Len(merged[1].contributions) = 2
    /\ Len(dropped) = 1
    /\ dropped[1].reason = "conflicting sides"

\* ---------------------------------------------- claims on the run record

\* run_strategies, called by the cycle, has returned or raised.
RunOver ==
    pc \in {"raised", "run_return", "deconflict", "size", "assemble",
            "persist_intent", "orch_return", "done"}

\* C26: with persistence enabled, every strategy_runs record that
\* run_strategies created with status 'running' is 'done' or 'failed' by the
\* time run_strategies returns or raises: none is left in 'running'.
C26_RunRecordClosed ==
    (entry = "orchestrate" /\ persist /\ RunOver) => db.run /= "running"

\* ------------------------------------------- claims on an explicit now_ts

\* orchestrate was called with now_ts and has assembled its intent.
OverrideIntent ==
    /\ entry = "orchestrate"
    /\ now_ts /= <<>>
    /\ intent /= <<>>

\* C27: when orchestrate is called with an explicit now_ts, timestamp
\* resolution and the staleness check are skipped: the intent is evaluated at
\* now_ts, has trade_allowed = true and carries no staleness exclusion,
\* whatever the freshness of the stored bars.
C27_OverrideSkipsStaleness ==
    OverrideIntent =>
        /\ intent[1].trade_allowed
        /\ intent[1].as_of_ts = now_ts[1]
        /\ eval_ts = now_ts
        /\ stale_exclusions = <<>>
        /\ \A i \in DOMAIN intent[1].universe.excluded :
             intent[1].universe.excluded[i].reason /= "data_too_stale"

\* C27's case: an intent returned for an explicit now_ts over bars of which
\* more than max_stale_pct are stale or missing.
C27_Witness ==
    /\ OverrideIntent
    /\ pc = "done"
    /\ StaleSymbols /= {}
    /\ MissingSymbols /= {}
    /\ 100 * Cardinality(MissingSymbols \cup StaleSymbols)
          > MaxStalePct * Len(universe)

\* ------------------------------------------- claims on the intent's symbols

\* The symbols the returned intent excludes, for whatever reason.
IntentExcluded ==
    {intent[1].universe.excluded[i].symbol :
        i \in DOMAIN intent[1].universe.excluded}

\* The symbols of the returned intent's targets and merged signals.
IntentSymbols ==
    {intent[1].targets[i].symbol : i \in DOMAIN intent[1].targets}
    \cup {intent[1].signals_used[i].symbol :
            i \in DOMAIN intent[1].signals_used}

\* C28: in every intent orchestrate returns, each target's symbol and each
\* merged signal's symbol is a member of intent.universe.included; no
\* excluded, stale or missing symbol ever receives a target.
C28_TargetsWithinUniverse ==
    (entry = "orchestrate" /\ intent /= <<>>) =>
        /\ IntentSymbols \subseteq Range(intent[1].universe.included)
        /\ IntentSymbols \cap IntentExcluded = {}
        /\ IntentSymbols \cap MissingSymbols = {}
        /\ IntentSymbols \cap StaleSymbols = {}

\* C28 as the code has it: the same, with stale symbols kept out only when
\* orchestrate resolves eval_ts itself; under an explicit now_ts no symbol
\* is classified stale.
C28_TargetsWithinUniverseResolved ==
    (entry = "orchestrate" /\ intent /= <<>>) =>
        /\ IntentSymbols \subseteq Range(intent[1].universe.included)
        /\ IntentSymbols \cap IntentExcluded = {}
        /\ IntentSymbols \cap MissingSymbols = {}
        /\ now_ts = <<>> => IntentSymbols \cap StaleSymbols = {}

\* C28's case: a returned intent with a target, whose universe excludes a
\* symbol that a strategy's signal asked for.
C28_Witness ==
    /\ entry = "orchestrate"
    /\ pc = "done"
    /\ intent /= <<>>
    /\ intent[1].targets /= <<>>
    /\ \E i \in DOMAIN intent[1].signals_dropped :
         /\ intent[1].signals_dropped[i].reason = "symbol excluded"
         /\ intent[1].signals_dropped[i].symbol \in IntentExcluded

\* ------------------------------------------- claims on the prefetch cache

\* The cache holds for symbol what prefetch(.., "1Day", lookback_bars) puts
\* there.
PrefetchedWith(symbol, lookback_bars) ==
    cache[symbol] =
        <<get_range(bars, {symbol},
                    eval_ts[1] - _estimate_calendar_days(lookback_bars),
                    eval_ts[1])>>

\* C29: for any (symbol, timeframe) that has been prefetched,
\* DataAccess.get_window and DataAccess.get_latest return the same bars as
\* the same query answered directly from the store bounded by as_of, for
\* every lookback up to the prefetched lookback.
C29_CacheMatchesStore ==
    entry = "DataAccess" =>
        /\ ( /\ call.method = "get_window"
             /\ \E n \in call.lookback_bars..MaxLookback :
                    PrefetchedWith(call.symbol, n) )
              => read = get_window(bars, call.symbol, eval_ts[1],
                                   call.lookback_bars)
        /\ ( /\ call.method = "get_latest"
             /\ \E n \in 1..MaxLookback : PrefetchedWith(call.symbol, n) )
              => read = get_window(bars, call.symbol, eval_ts[1], 1)

\* ------------------------------------------- claims on a merge's contributors

\* C30: every merged signal produced by deconflict_signals has at least one
\* contributor, and every contributor's side equals the merged signal's
\* side: long merges contain only LONG signals, short merges only SHORT
\* signals, and flat merges only FLAT exit signals (negative strength).
C30_ContributorsShareSide ==
    DeconflictDone =>
        \A i \in DOMAIN merged :
            /\ merged[i].contributions /= <<>>
            /\ \A c \in DOMAIN merged[i].contributions :
                 /\ merged[i].contributions[c].side = merged[i].side
                 /\ merged[i].side = "flat"
                       => merged[i].contributions[c].strength < 0

====
